---- MODULE Spec2Model ----
(***************************************************************************)
(* A model of xpra's subprocess wrapper (xpra/net/subprocess_wrapper.py),  *)
(* of the WebSocket frame header codec (xpra/net/websockets/header.py) and *)
(* of the Tk client's packet source (xpra/client/tk/client.py).            *)
(*                                                                         *)
(* Specifications:                                                         *)
(*   SpecFrame  the frame codec: encode_hybi_header / decode_hybi applied  *)
(*              to inputs drawn from bounded sets;                         *)
(*   Spec       the process bridge: SubprocessCaller and SubprocessCallee, *)
(*              each on top of one protocol engine and one connection;     *)
(*   SpecWrite, SpecRead, SpecCallee, SpecCaller, SpecConnect,             *)
(*   SpecProcess, SpecExit, SpecExport, SpecEcho, SpecFault, SpecChunk,    *)
(*   SpecWake, SpecStop, SpecFinal, SpecShare                              *)
(*              parts of the bridge with the inputs their properties need; *)
(*   SpecClose  close_packet applied to codes and reasons;                 *)
(*   SpecSetup  setup_fastencoder_nocompression over encoder lists;        *)
(*   SpecTk     the Tk client's send() and next_packet() with the engine's *)
(*              write loop.                                                *)
(***************************************************************************)
EXTENDS Integers, Sequences, FiniteSets, TLC

VARIABLES
    f_in,       \* frame codec: the inputs of the frame under test
    f_frame,    \* frame codec: the encoded frame, followed by f_in.tail
    f_cut,      \* frame codec: how many bytes of f_frame the decoder was given
    f_res,      \* frame codec: what decode_hybi returned for that buffer
    f_next      \* frame codec: the decode of the bytes left after the frame

fvars == <<f_in, f_frame, f_cut, f_res, f_next>>

VARIABLES
    role,        \* which bridge role owns the engine: "caller" or "callee"
    send_queue,  \* the owner's self.send_queue (SimpleQueue), oldest first
    protocol,    \* the owner's self.protocol: NoProtocol or TheProtocol
    engine,      \* the protocol engine (SocketProtocol) behind self.protocol
    wire_out,    \* every byte the engine wrote to its connection, in order
    pipe_in,     \* the bytes the peer wrote that the engine has not read yet
    peer_eof,    \* the peer closed its end of the connection
    peer_sent,   \* history: the packets the peer wrote, in wire order
    dispatched,  \* history: the packets the engine handed to process_packet
    idle,        \* the main loop's queue of scheduled callbacks, oldest first
    timers,      \* the main loop's pending timeouts
    ran,         \* history: the callbacks the main loop has run, in order
    mainloop,    \* the callee's GLib.MainLoop: "running", "quit", "ended"
    sig_handler, \* the callee's registered OS signal handler
    process,     \* the caller's self.process: NoProcess or TheProcess
    child,       \* the caller's subprocess: "none", "running", "terminated"
                 \* (sent SIGTERM, not gone yet), "exited", "reaped" (exited,
                 \* and the exit watcher has fired)
    signal_callbacks, \* the caller's self.signal_callbacks: tag -> <<(cb, args)>>
    prod,        \* the producer threads: what each has left to send, and
                 \* its position inside send()
    peer_left,   \* how many more writes the peer will make
    enq_log,     \* history: the packets put on send_queue, in put order
    method_whitelist, \* the callee's self.method_whitelist: None or a set of names
    wrapped_object,   \* the callee's self.wrapped_object: None or the object
    hist         \* history: counters of the calls made, and the wire at close()

bvars == <<role, send_queue, protocol, engine, wire_out, pipe_in, peer_eof,
           peer_sent, dispatched, idle, timers, ran, mainloop, sig_handler,
           process, child, signal_callbacks, prod, peer_left, enq_log, hist,
           method_whitelist, wrapped_object>>

VARIABLES
    fault_rate,  \* XPRA_WRAPPER_FAULT_INJECTION_RATE, as read at import
    counter,     \* do_inject_fault's global _counter
    raw_writes,  \* the junk handed to raw_write that is not on the wire yet
    fault_log    \* history: the calls of INJECT_FAULT, in order

faultvars == <<fault_rate, counter, raw_writes, fault_log>>

VARIABLES
    far          \* end to end: the callee in the child process of a caller

VARIABLES
    chunker      \* the packet codec's large-packet policy and chunk transfer

VARIABLES
    setup,       \* setup_fastencoder_nocompression: its inputs and the engine's codec
    tk           \* the Tk client's packet list and its engine's write loop

latevars == <<setup, tk>>

xvars == <<faultvars, far, chunker, latevars>>

vars == <<fvars, bvars, xvars>>

(***************************************************************************)
(* Bounds of the frame codec model.                                        *)
(***************************************************************************)
\* payload lengths 0..MaxSmallLen are all enumerated
MaxSmallLen == 2
\* the longest short close reason, in code points
MaxReasonLen == 2
\* the largest payload length is 65536 + MaxOver
MaxOver == 1
\* a stream of at most FullCutLen bytes is cut at every byte boundary
FullCutLen == 150
\* a longer one up to CutSpan bytes past the longest header, and from CutSpan
\* bytes before the end of its first frame on
CutSpan == 3

(***************************************************************************)
(* Bytes and struct.pack / struct.unpack                                   *)
(***************************************************************************)
\* an exception out of encode_hybi_header, in place of the header bytes
ValueError == <<-1>>
\* an exception out of struct.unpack, in place of the unpacked integer
StructError == -1

\* what decode_hybi returns or raises
Incomplete == [status |-> "incomplete"]
Raised == [status |-> "error"]
Decoded(opcode, payload, length, fin) ==
    [status |-> "ok", opcode |-> opcode, payload |-> payload,
     length |-> length, fin |-> fin]

Byte == 0..255

RECURSIVE BitXor(_, _, _)
BitXor(a, b, n) ==
    IF n = 0 THEN 0
    ELSE (((a % 2) + (b % 2)) % 2) + (2 * BitXor(a \div 2, b \div 2, n - 1))

\* a ^ b on bytes, tabulated once
XorTable == [a \in Byte |-> [b \in Byte |-> BitXor(a, b, 8)]]
XorByte(a, b) == XorTable[a][b]

\* python: bool(b & 0x80) on a byte
HighBit(b) == b >= 128
\* python: b & 0x7f on a byte
Low7(b) == b % 128
\* python: b & 0x0f
Low4(b) == b % 16

RECURSIVE BigEndian(_, _)
\* n as k big-endian bytes
BigEndian(n, k) ==
    IF k = 0 THEN << >>
    ELSE Append(BigEndian(n \div 256, k - 1), n % 256)

RECURSIVE FromBigEndian(_)
FromBigEndian(bs) ==
    IF Len(bs) = 0 THEN 0
    ELSE (256 * FromBigEndian(SubSeq(bs, 1, Len(bs) - 1))) + bs[Len(bs)]

\* python slice buf[a:b], 0-based, clipped to the buffer
Slice(buf, a, b) ==
    LET hi == IF b > Len(buf) THEN Len(buf) ELSE b
    IN  IF a >= hi THEN << >> ELSE SubSeq(buf, a + 1, hi)

\* struct.unpack(fmt, bs) of one big-endian unsigned integer of k bytes:
\* raises struct.error unless len(bs) = k
Unpack(bs, k) == IF Len(bs) = k THEN FromBigEndian(bs) ELSE StructError

(***************************************************************************)
(* xpra/net/websockets/header.py                                           *)
(***************************************************************************)
\* OPCODE.BINARY and OPCODE.CLOSE of xpra.net.websockets.common
OPCODE_BINARY == 2
OPCODE_CLOSE == 8

encode_hybi_header_no_maskbit(opcode, payload_len, has_mask, fin) ==
    IF Low4(opcode) # opcode THEN ValueError
    ELSE LET b1 == opcode + (IF fin THEN 128 ELSE 0)
         IN  IF payload_len <= 125 THEN <<b1, payload_len>>
             ELSE IF payload_len < 65536
                  THEN <<b1, 126>> \o BigEndian(payload_len, 2)
                  ELSE <<b1, 127>> \o BigEndian(payload_len, 8)

encode_hybi_header_126_inline(opcode, payload_len, has_mask, fin) ==
    IF Low4(opcode) # opcode THEN ValueError
    ELSE LET mask_bit == IF has_mask THEN 128 ELSE 0
             b1 == opcode + (IF fin THEN 128 ELSE 0)
         IN  IF payload_len <= 126 THEN <<b1, payload_len + mask_bit>>
             ELSE IF payload_len < 65536
                  THEN <<b1, 126 + mask_bit>> \o BigEndian(payload_len, 2)
                  ELSE <<b1, 127 + mask_bit>> \o BigEndian(payload_len, 8)

\* encode_hybi_header(opcode, payload_len, has_mask=False, fin=True):
\* the header bytes, or ValueError for an opcode wider than 4 bits.
\* opcode | (0x80 * fin) and payload_len | mask_bit are sums: the operands
\* share no bit (opcode < 16, payload_len <= 127).
encode_hybi_header(opcode, payload_len, has_mask, fin) ==
    IF Low4(opcode) # opcode THEN ValueError
    ELSE LET mask_bit == IF has_mask THEN 128 ELSE 0
             b1 == opcode + (IF fin THEN 128 ELSE 0)
         IN  IF payload_len <= 125 THEN <<b1, payload_len + mask_bit>>
             ELSE IF payload_len < 65536
                  THEN <<b1, 126 + mask_bit>> \o BigEndian(payload_len, 2)
                  ELSE <<b1, 127 + mask_bit>> \o BigEndian(payload_len, 8)

\* hybi_unmask(buf, offset, datalen) of xpra.net.websockets.mask: the mask key
\* is buf[offset:offset+4], the data the datalen bytes after it; byte i of
\* the data is XORed with key byte i mod 4.
hybi_unmask(buf, offset, datalen) ==
    [i \in 1..datalen |->
        XorByte(buf[offset + 4 + i], buf[offset + 1 + ((i - 1) % 4)])]

decode_hybi_no_length_check(buf) ==
    LET blen == Len(buf)
    IN  IF blen < 2 THEN Incomplete
        ELSE
        LET b1 == buf[1]
            b2 == buf[2]
            masked == HighBit(b2)
            len7 == Low7(b2)
            hlen == (IF masked THEN 6 ELSE 2)
                    + (IF len7 = 126 THEN 2 ELSE IF len7 = 127 THEN 8 ELSE 0)
        IN  IF blen < hlen THEN Incomplete
            ELSE
            LET payload_len ==
                    IF len7 = 126 THEN Unpack(Slice(buf, 2, 4), 2)
                    ELSE IF len7 = 127 THEN Unpack(Slice(buf, 2, 10), 8)
                    ELSE len7
                length == hlen + payload_len
            IN  Decoded(Low4(b1),
                        IF masked /\ blen >= length
                        THEN hybi_unmask(buf, hlen - 4, payload_len)
                        ELSE Slice(buf, hlen, length),
                        length, HighBit(b1))

\* decode_hybi(buf): Incomplete (the code's None) when the buffer does not
\* hold a whole frame yet, else (opcode, payload, length, fin); Raised stands
\* for an exception out of struct.unpack.
decode_hybi(buf) ==
    LET blen == Len(buf)
    IN  IF blen < 2 THEN Incomplete
        ELSE
        LET b1 == buf[1]
            b2 == buf[2]
            opcode == Low4(b1)
            fin == HighBit(b1)
            masked == HighBit(b2)
            hlen1 == IF masked THEN 2 + 4 ELSE 2
            len7 == Low7(b2)
        IN  IF masked /\ blen < hlen1 THEN Incomplete
            ELSE
            LET hlen == hlen1 + (IF len7 = 126 THEN 2 ELSE IF len7 = 127 THEN 8 ELSE 0)
            IN  IF len7 \in {126, 127} /\ blen < hlen THEN Incomplete
                ELSE
                LET payload_len ==
                        IF len7 = 126 THEN Unpack(Slice(buf, 2, 4), 2)
                        ELSE IF len7 = 127 THEN Unpack(Slice(buf, 2, 10), 8)
                        ELSE len7
                IN  IF payload_len = StructError THEN Raised
                    ELSE
                    LET length == hlen + payload_len
                    IN  IF blen < length THEN Incomplete
                        ELSE Decoded(opcode,
                                     IF masked
                                     THEN hybi_unmask(buf, hlen - 4, payload_len)
                                     ELSE Slice(buf, hlen, length),
                                     length, fin)

\* str.encode("utf-8") of one code point
utf8_char(cp) ==
    IF cp < 128 THEN <<cp>>
    ELSE IF cp < 2048 THEN <<192 + (cp \div 64), 128 + (cp % 64)>>
    ELSE IF cp < 65536
    THEN <<224 + (cp \div 4096), 128 + ((cp \div 64) % 64), 128 + (cp % 64)>>
    ELSE <<240 + (cp \div 262144), 128 + ((cp \div 4096) % 64),
           128 + ((cp \div 64) % 64), 128 + (cp % 64)>>

\* reason.encode("utf-8"): the reason is a sequence of code points
RECURSIVE utf8_encode(_)
utf8_encode(str) ==
    IF str = << >> THEN << >> ELSE utf8_char(Head(str)) \o utf8_encode(Tail(str))

close_packet_little_endian(code, reason) ==
    LET data == <<code % 256, code \div 256>> \o utf8_encode(reason)
    IN  encode_hybi_header(OPCODE_CLOSE, Len(data), FALSE, TRUE) \o data

\* close_packet(code=1000, reason="")
close_packet(code, reason) ==
    LET data == BigEndian(code, 2)
                    \o (IF reason # << >> THEN utf8_encode(reason) ELSE << >>)
    IN  encode_hybi_header(OPCODE_CLOSE, Len(data), FALSE, TRUE) \o data

\* The sender's masking (xpra/net/websockets, not in header.py): the header
\* with the mask bit, the 4-byte key, then the payload XORed cyclically
\* with the key.
hybi_mask(key, payload) ==
    [i \in 1..Len(payload) |-> XorByte(payload[i], key[1 + ((i - 1) % 4)])]

\* A whole frame as the sender puts it on the wire.
encode_frame(opcode, payload, has_mask, key, fin) ==
    LET header == encode_hybi_header(opcode, Len(payload), has_mask, fin)
    IN  IF header = ValueError THEN ValueError
        ELSE IF has_mask THEN header \o key \o hybi_mask(key, payload)
        ELSE header \o payload

(***************************************************************************)
(* The frame codec as a state machine: draw the inputs, encode, then hand  *)
(* the decoder the first f_cut bytes of the stream.                        *)
(***************************************************************************)
SmallLens == 0..MaxSmallLen
EdgeLens == {125, 126, 127}
LargeLens == {65535, 65536, 65536 + MaxOver}
NoKey == <<0, 0, 0, 0>>
MaskKeys == {<<1, 2, 3, 4>>, <<255, 0, 170, 85>>}

\* the payload of length n built from seed
PayloadOf(n, seed) == [i \in 1..n |-> (seed + (3 * i)) % 256]

FrameInput(opcode, fin, len, mask, key) ==
    [opcode |-> opcode, fin |-> fin, len |-> len, mask |-> mask, key |-> key]

\* every opcode goes with the short payloads; the payloads at the edge of a
\* length class and the long ones go with these
EdgeOpcodes == {0, OPCODE_BINARY, OPCODE_CLOSE, 15}

FrameInputs ==
    {FrameInput(x[1], x[2], x[3], x[4] # NoKey, x[4]) :
        x \in ((0..15) \X BOOLEAN \X SmallLens \X ({NoKey} \cup MaskKeys))
              \cup (EdgeOpcodes \X BOOLEAN \X EdgeLens \X ({NoKey} \cup MaskKeys))}
    \cup
    {FrameInput(OPCODE_BINARY, TRUE, l, m, IF m THEN <<255, 0, 170, 85>> ELSE NoKey) :
        l \in LargeLens, m \in BOOLEAN}

\* the frame that follows the frame under test on the wire
NextPayload == <<7, 9>>
NextFrame == encode_frame(1, NextPayload, FALSE, NoKey, TRUE)

NoResult == [status |-> "none"]

\* the receiver reads on: the next length of its buffer after c bytes
NextCut(c, stream_len, frame_len) ==
    IF stream_len <= FullCutLen THEN c + 1
    ELSE IF c < 14 + CutSpan THEN c + 1
    ELSE IF c < frame_len - CutSpan THEN frame_len - CutSpan
    ELSE c + 1

FrameInit ==
    /\ f_in \in FrameInputs
    /\ f_frame = << >>
    /\ f_cut = -1
    /\ f_res = NoResult
    /\ f_next = NoResult

\* the sender: encode_hybi_header, the mask key and the (masked) payload,
\* followed on the wire by the next frame
FrameEncode ==
    /\ f_frame = << >>
    /\ f_frame' = encode_frame(f_in.opcode, PayloadOf(f_in.len, f_in.opcode + f_in.len),
                               f_in.mask, f_in.key, f_in.fin) \o NextFrame
    /\ UNCHANGED <<f_in, f_cut, f_res, f_next>>
    /\ UNCHANGED <<bvars, xvars>>

\* the receiver: more bytes have arrived, decode_hybi runs on the first n
\* bytes of the stream; on success the caller slices the remainder off at
\* the returned length and decodes it as the start of the next frame
FrameDecode ==
    /\ f_frame # << >>
    /\ f_cut < Len(f_frame)
    /\ LET n == NextCut(f_cut, Len(f_frame), Len(f_frame) - Len(NextFrame))
           buf == Slice(f_frame, 0, n)
       IN  /\ f_cut' = n
           /\ f_res' = decode_hybi(buf)
           /\ f_next' = IF f_res'.status = "ok"
                        THEN decode_hybi(Slice(buf, f_res'.length, n))
                        ELSE NoResult
    /\ UNCHANGED <<f_in, f_frame>>
    /\ UNCHANGED <<bvars, xvars>>

FrameNext == FrameEncode \/ FrameDecode

(***************************************************************************)
(* The close convenience                                                   *)
(***************************************************************************)
\* status codes: the ends of the 16-bit range, normal closure, going away
CloseCodes == {0, 1000, 1001, 65535}

\* code points of one, two, three and four UTF-8 bytes
ReasonChars == {65, 233, 8364, 128512}

\* a reason that takes the payload past the 7-bit length class
LongReason == [i \in 1..31 |-> 128512]

CloseReasons ==
    UNION {[1..n -> ReasonChars] : n \in 0..MaxReasonLen} \cup {LongReason}

CloseInit ==
    /\ f_in \in [code : CloseCodes, reason : CloseReasons]
    /\ f_frame = << >>
    /\ f_cut = -1
    /\ f_res = NoResult
    /\ f_next = NoResult

\* the sender builds the close frame
CloseEncode ==
    /\ f_frame = << >>
    /\ f_frame' = close_packet(f_in.code, f_in.reason)
    /\ UNCHANGED <<f_in, f_cut, f_res, f_next>>
    /\ UNCHANGED <<bvars, xvars>>

\* the receiver decodes it
CloseDecode ==
    /\ f_frame # << >>
    /\ f_cut < 0
    /\ f_cut' = Len(f_frame)
    /\ f_res' = decode_hybi(f_frame)
    /\ UNCHANGED <<f_in, f_frame, f_next>>
    /\ UNCHANGED <<bvars, xvars>>

CloseNext == CloseEncode \/ CloseDecode

\* the text a well-formed UTF-8 byte sequence stands for
RECURSIVE Utf8Text(_)
Utf8Text(b) ==
    IF b = << >> THEN << >>
    ELSE IF b[1] < 128 THEN <<b[1]>> \o Utf8Text(SubSeq(b, 2, Len(b)))
    ELSE IF b[1] < 224
    THEN <<(b[1] - 192) * 64 + (b[2] - 128)>> \o Utf8Text(SubSeq(b, 3, Len(b)))
    ELSE IF b[1] < 240
    THEN <<(b[1] - 224) * 4096 + (b[2] - 128) * 64 + (b[3] - 128)>>
            \o Utf8Text(SubSeq(b, 4, Len(b)))
    ELSE <<(b[1] - 240) * 262144 + (b[2] - 128) * 4096 + (b[3] - 128) * 64
            + (b[4] - 128)>> \o Utf8Text(SubSeq(b, 5, Len(b)))

\* C33: for every status code and reason, close_packet gives one frame
\* whose first byte is FIN with the CLOSE opcode and whose length byte has
\* no mask bit; decode_hybi of it returns CLOSE, fin, a payload of the
\* status code as two big-endian bytes followed by bytes that read as the
\* reason in UTF-8, and the length of the whole frame.
C33_ClosePacket ==
    /\ f_frame # << >> =>
            /\ f_frame[1] = 128 + OPCODE_CLOSE
            /\ f_frame[2] < 128
    /\ f_res # NoResult =>
            /\ f_res.status = "ok"
            /\ f_res.opcode = OPCODE_CLOSE
            /\ f_res.fin
            /\ f_res.length = Len(f_frame)
            /\ Len(f_res.payload) >= 2
            /\ f_res.payload[1] * 256 + f_res.payload[2] = f_in.code
            /\ Utf8Text(SubSeq(f_res.payload, 3, Len(f_res.payload))) = f_in.reason
            /\ f_res.payload = SubSeq(f_frame, Len(f_frame) - Len(f_res.payload) + 1,
                                      Len(f_frame))

\* close_packet(1000, "\u00e9\u20ac"): 88 07 03 e8 c3 a9 e2 82 ac
C33_Witness ==
    /\ f_in = [code |-> 1000, reason |-> <<233, 8364>>]
    /\ f_frame = <<136, 7, 3, 232, 195, 169, 226, 130, 172>>
    /\ f_res.status = "ok"
    /\ f_res.payload = <<3, 232, 195, 169, 226, 130, 172>>
    /\ f_res.length = 9

(***************************************************************************)
(* Claims about the frame codec (checked under SpecFrame)                  *)
(***************************************************************************)
\* the header length the length class of a payload of n bytes calls for
ClassHeaderLen(n) == IF n <= 125 THEN 2 ELSE IF n <= 65535 THEN 4 ELSE 10
\* the length of the whole frame under test
ExpectedFrameLen == ClassHeaderLen(f_in.len) + (IF f_in.mask THEN 4 ELSE 0) + f_in.len
ExpectedPayload == PayloadOf(f_in.len, f_in.opcode + f_in.len)
FrameDecoded == f_cut >= 0
WholeFrameGiven == FrameDecoded /\ f_cut >= ExpectedFrameLen

\* C8: frame round trip. For every opcode, fin flag and unmasked payload,
\* decoding the encoded header followed by the payload returns the same
\* opcode, fin flag and payload and reports header length + L bytes
\* consumed, the header being 2, 4 or 10 bytes by length class; the bytes
\* after the frame are left alone and decode as the next frame.
C8_FrameRoundTrip ==
    (WholeFrameGiven /\ ~f_in.mask) =>
        /\ Len(f_frame) = ClassHeaderLen(f_in.len) + f_in.len + Len(NextFrame)
        /\ f_res = Decoded(f_in.opcode, ExpectedPayload,
                           ClassHeaderLen(f_in.len) + f_in.len, f_in.fin)
        /\ (f_cut = Len(f_frame)) =>
                f_next = Decoded(1, NextPayload, Len(NextFrame), TRUE)
        /\ (f_cut < Len(f_frame)) => f_next = Incomplete

\* a CLOSE frame of the 16-bit length class was decoded with the next frame
\* behind it
C8_Witness ==
    /\ ~f_in.mask
    /\ f_in.opcode = OPCODE_CLOSE
    /\ f_in.len = 127
    /\ f_cut = Len(f_frame)
    /\ f_res.status = "ok"
    /\ f_next.status = "ok"

\* C9: resumable decode. decode_hybi on every strict prefix of a complete
\* valid frame (masked or not, any length class) returns "incomplete" and
\* never raises; on the whole frame it succeeds.
C9_ResumableDecode ==
    FrameDecoded =>
        /\ f_res.status # "error"
        /\ (f_cut < ExpectedFrameLen) => f_res = Incomplete
        /\ (f_cut >= ExpectedFrameLen) => f_res.status = "ok"

\* a masked frame of the 16-bit length class, one byte short, was refused
C9_Witness ==
    /\ f_in.mask
    /\ f_in.len = 126
    /\ f_cut = ExpectedFrameLen - 1
    /\ f_res = Incomplete

\* C10: masking round trip. The encoded frame carries the mask bit, the
\* 4-byte key before the payload and the payload XORed cyclically with the
\* key; decoding it returns the original opcode, fin flag and payload.
C10_MaskRoundTrip ==
    (f_in.mask /\ f_frame # << >>) =>
        LET h == ClassHeaderLen(f_in.len)
        IN  /\ HighBit(f_frame[2])
            /\ Slice(f_frame, h, h + 4) = f_in.key
            /\ ~FrameDecoded =>
                  \A i \in 1..f_in.len :
                      f_frame[h + 4 + i] =
                          BitXor(ExpectedPayload[i], f_in.key[1 + ((i - 1) % 4)], 8)
            /\ WholeFrameGiven =>
                  f_res = Decoded(f_in.opcode, ExpectedPayload,
                                  h + 4 + f_in.len, f_in.fin)

\* a masked frame with a payload that the key changes was decoded whole
C10_Witness ==
    /\ f_in.mask
    /\ f_in.len = 127
    /\ f_in.key = <<255, 0, 170, 85>>
    /\ f_cut = ExpectedFrameLen
    /\ f_res.status = "ok"
    /\ f_res.payload # Slice(f_frame, ClassHeaderLen(f_in.len) + 4, ExpectedFrameLen)

(***************************************************************************)
(* Bounds of the bridge model.                                             *)
(***************************************************************************)
\* how many times the application calls SubprocessCaller.stop()
MaxStops == 2
\* how many OS termination signals the callee process receives
MaxSignals == 2
\* how many packets the peer writes
MaxPeerPackets == 2
\* how many commands the caller sends a callee under test
MaxCommands == 2
\* how many times the application calls connect() on a started caller
MaxConnects == 2
\* how many times the application calls send() on its caller
MaxSends == 1
\* how many events the wrapped object emits
MaxEmits == 2
\* how many commands the caller sends its echo callee
MaxEchoes == 2
\* the largest fault injection rate configured
MaxFaultRate == 2
\* how many packets are sent through the chunking codec
MaxLargeSends == 2
\* how many packet encoders there are to choose from
MaxEncoders == 3
\* how many times the Tk client sends
MaxTkSends == 4

(***************************************************************************)
(* The packet codec (xpra.net.protocol): a 7-byte header -- encoder id,    *)
(* compressor id, flags, 32-bit big-endian body length -- then the body.   *)
(* The encoder is abstracted to one byte per packet element, its index in  *)
(* StringTable.                                                            *)
(***************************************************************************)
HEADER_SIZE == 7
ENCODER_ID == 1
COMPRESSOR_NONE == 0

CONNECTION_LOST == "connection-lost"
GIBBERISH == "gibberish"

StringTable == <<"msg", "a1", "a2", "b1", "signal", "SIGTERM", "stop", "exit",
                 CONNECTION_LOST, GIBBERISH, "replied", "echo", "hi", "other",
                 "excerpt", "SIGINT", "do-it", "bogus">>
StrCode(str) == CHOOSE i \in 1..Len(StringTable) : StringTable[i] = str

\* get_packet's "no packet" (None)
NoPacket == << >>

encode_packet(packet) ==
    <<ENCODER_ID, COMPRESSOR_NONE, 0>> \o BigEndian(Len(packet), 4)
        \o [i \in 1..Len(packet) |-> StrCode(packet[i])]

\* Decoding the front of the read buffer: "incomplete" (need more bytes),
\* "gibberish" (unknown encoder id, unknown compressor id, undecodable body)
\* or a packet and the number of bytes it took.
decode_packet(buf) ==
    IF Len(buf) < HEADER_SIZE THEN [status |-> "incomplete"]
    ELSE IF buf[1] # ENCODER_ID \/ buf[2] # COMPRESSOR_NONE
         THEN [status |-> "gibberish"]
    ELSE LET n == FromBigEndian(Slice(buf, 3, HEADER_SIZE))
         IN  IF Len(buf) < HEADER_SIZE + n THEN [status |-> "incomplete"]
             ELSE IF n = 0 \/ \E i \in 1..n : buf[HEADER_SIZE + i] \notin 1..Len(StringTable)
                  THEN [status |-> "gibberish"]
             ELSE [status |-> "ok",
                   packet |-> [i \in 1..n |-> StringTable[buf[HEADER_SIZE + i]]],
                   length |-> HEADER_SIZE + n]

(***************************************************************************)
(* The protocol engine (xpra.net.protocol.socket_handler.SocketProtocol)   *)
(***************************************************************************)
EngineOpen == {"STARTED", "ACTIVE"}
EngineClosing == {"CLOSING", "CLOSED"}

\* writer: "off" (not started), "wait" (suspended until source_has_more),
\*         "get" (about to call get_packet), "write" (writing wbuf), "stopped"
\* reader: "off", "read", "stopped"
NewEngine ==
    [state |-> "CREATED", has_more |-> FALSE,
     writer |-> "off", wbuf |-> << >>, wmore |-> FALSE,
     reader |-> "off", rbuf |-> << >>,
     conn_closed |-> 0]

\* start(): CREATED -> STARTED, both loops begin
Engine_start(e) ==
    IF e.state = "CREATED"
    THEN [e EXCEPT !.state = "STARTED", !.writer = "wait", !.reader = "read"]
    ELSE e

\* source_has_more(): wake the write loop
Engine_source_has_more(e) ==
    IF e.state \in EngineClosing THEN e ELSE [e EXCEPT !.has_more = TRUE]

Engine_close_again(e) ==
    [e EXCEPT !.state = "CLOSING", !.conn_closed = @ + 1]

\* close(): idempotent; any state -> CLOSING, the connection is closed, what
\* was not written yet is dropped
Engine_close(e) ==
    IF e.state \in EngineClosing THEN e
    ELSE [e EXCEPT !.state = "CLOSING", !.conn_closed = @ + 1,
                   !.has_more = FALSE, !.wbuf = << >>, !.rbuf = << >>]

Engine_loop_stopped_early(e, loop) ==
    IF loop = "writer" THEN [e EXCEPT !.writer = "stopped", !.state = "CLOSED"]
    ELSE [e EXCEPT !.reader = "stopped", !.state = "CLOSED"]

\* a loop has observed the closure; the engine is CLOSED once both have
Engine_loop_stopped(e, loop) ==
    LET e1 == IF loop = "writer" THEN [e EXCEPT !.writer = "stopped"]
              ELSE [e EXCEPT !.reader = "stopped"]
    IN  IF e1.writer = "stopped" /\ e1.reader = "stopped"
        THEN [e1 EXCEPT !.state = "CLOSED"]
        ELSE e1

\* the first packet fully written or read: STARTED -> ACTIVE
Engine_exchanged(e) ==
    IF e.state = "STARTED" THEN [e EXCEPT !.state = "ACTIVE"] ELSE e

(***************************************************************************)
(* xpra/net/subprocess_wrapper.py: what both roles share in shape          *)
(***************************************************************************)
NoProtocol == "None"
TheProtocol == "protocol"
NoProcess == "None"
TheProcess == "Popen"

\* method_whitelist: None, or the names the constructor was given
NoWhitelist == [configured |-> FALSE, names |-> {}]
Whitelist(names) == [configured |-> TRUE, names |-> names]
Callee_method_whitelist == {"msg", "echo"}
\* wrapped_object: None, or an object; its methods, among them some named
\* like the bridge's own commands
NoWrappedObject == "None"
TheWrappedObject == "gobject"
WrappedMethods == {"msg", "echo", "other", "do_it", "stop", "exit", "signal",
                   "connection_lost", "gibberish"}

\* XPRA_WRAPPER_FAULT_INJECTION_RATE is unset: INJECT_FAULT is noop
FAULT_RATE == 0

\* "Wrapper JUNK! added by fault injection code", its first bytes
FaultJunk == <<87, 114, 97, 112, 112, 101, 114>>

\* one call of the hook: where from, whether the counter was due, whether
\* raw_write was called, whether the call raised
Injected(at, due, wrote, raised) ==
    [at |-> at, due |-> due, wrote |-> wrote, raised |-> raised]

INJECT_FAULT_default_on(p, at) ==
    /\ counter' = counter + 1
    /\ raw_writes' = raw_writes + (IF p = TheProtocol THEN 1 ELSE 0)
    /\ fault_log' = Append(fault_log,
                        Injected(at, TRUE, p = TheProtocol, p # TheProtocol))
    /\ UNCHANGED fault_rate

INJECT_FAULT_sends_only(p, at) ==
    IF fault_rate > 0 /\ at = "send"
    THEN LET due == ((counter + 1) % fault_rate) = 0
         IN  /\ counter' = counter + 1
             /\ raw_writes' = raw_writes + (IF due /\ p = TheProtocol THEN 1 ELSE 0)
             /\ fault_log' = Append(fault_log,
                    Injected(at, due, due /\ p = TheProtocol, due /\ p # TheProtocol))
             /\ UNCHANGED fault_rate
    ELSE UNCHANGED faultvars

\* INJECT_FAULT(p): noop unless FAULT_RATE > 0; else do_inject_fault:
\* _counter += 1; if (_counter % FAULT_RATE) == 0: p.raw_write("junk", ...),
\* which raises AttributeError when p is None
INJECT_FAULT(p, at) ==
    IF fault_rate > 0
    THEN LET due == ((counter + 1) % fault_rate) = 0
         IN  /\ counter' = counter + 1
             /\ raw_writes' = raw_writes + (IF due /\ p = TheProtocol THEN 1 ELSE 0)
             /\ fault_log' = Append(fault_log,
                    Injected(at, due, due /\ p = TheProtocol, due /\ p # TheProtocol))
             /\ UNCHANGED fault_rate
    ELSE UNCHANGED faultvars

Producers == {"A", "B"}
PacketA1 == <<"msg", "a1">>
PacketA2 == <<"msg", "a2">>
PacketB1 == <<"msg", "b1">>
\* what each producer thread sends, in its own order
Plan == [A |-> <<PacketA1, PacketA2>>, B |-> <<PacketB1>>]
\* one producer only
PlanA == [A |-> <<PacketA1, PacketA2>>, B |-> << >>]
NoPlan == [A |-> << >>, B |-> << >>]

Caller_send_put_front(q, packet) == <<packet>> \o q
\* SubprocessCaller.send: self.send_queue.put(packet)
Caller_send_put(q, packet) == Append(q, packet)

Callee_send_put_front(q, packet) == <<packet>> \o q
\* SubprocessCallee.send: self.send_queue.put(packet)
Callee_send_put(q, packet) == Append(q, packet)

GotPacket(item, more, rest) ==
    [item |-> item, start_new_frame |-> FALSE, more |-> more, rest |-> rest]

Caller_get_packet_no_more(q) ==
    IF q = << >> THEN GotPacket(NoPacket, FALSE, q)
    ELSE GotPacket(Head(q), FALSE, Tail(q))

Caller_get_packet_newest(q) ==
    IF q = << >> THEN GotPacket(NoPacket, FALSE, q)
    ELSE GotPacket(q[Len(q)], Len(q) > 1, SubSeq(q, 1, Len(q) - 1))
\* SubprocessCaller.get_packet: (item, False, more), and the queue left
Caller_get_packet(q) ==
    IF q = << >> THEN GotPacket(NoPacket, FALSE, q)
    ELSE GotPacket(Head(q), Len(Tail(q)) > 0, Tail(q))

Callee_get_packet_newest(q) ==
    IF q = << >> THEN GotPacket(NoPacket, FALSE, q)
    ELSE GotPacket(q[Len(q)], Len(q) > 1, SubSeq(q, 1, Len(q) - 1))
\* SubprocessCallee.get_packet: (item, False, more), and the queue left
Callee_get_packet(q) ==
    IF q = << >> THEN GotPacket(NoPacket, FALSE, q)
    ELSE GotPacket(Head(q), Len(Tail(q)) > 0, Tail(q))

\* the owner's callbacks, as make_protocol hands them to the engine
send_put(q, packet) ==
    IF role = "caller" THEN Caller_send_put(q, packet) ELSE Callee_send_put(q, packet)
get_packet_cb(q) ==
    IF role = "caller" THEN Caller_get_packet(q) ELSE Callee_get_packet(q)

(***************************************************************************)
(* Initial state: both objects constructed, nothing started                *)
(***************************************************************************)
NoHist == [stops |-> 0, signals |-> 0, cleanup |-> 0, close_calls |-> 0,
           terminate |-> 0, sys_exit |-> 0, wire_at_close |-> -1,
           stop_runs |-> 0, failures |-> {}, connects |-> 0,
           send_log |-> << >>, emit_log |-> << >>, woken |-> FALSE,
           close_cb |-> 0, early |-> 0]

\* a scheduled callback: GLib.idle_add(fn, *args)
IdleEntry(fn, args) == [fn |-> fn, args |-> args, wo |-> FALSE]
\* a scheduled method of the wrapped object: GLib.idle_add(method, *args)
MethodEntry(attr, args) == [fn |-> attr, args |-> args, wo |-> TRUE]

Caller_connect_replace(cbs, signal, cb, args) ==
    [t \in DOMAIN cbs \cup {signal} |->
        IF t = signal THEN << <<cb, args>> >> ELSE cbs[t]]

\* SubprocessCaller.connect(signal, cb, *args):
\* self.signal_callbacks.setdefault(signal, []).append((cb, list(args)))
Caller_connect(cbs, signal, cb, args) ==
    IF signal \in DOMAIN cbs
    THEN [cbs EXCEPT ![signal] = Append(@, <<cb, args>>)]
    ELSE [t \in DOMAIN cbs \cup {signal} |->
            IF t = signal THEN << <<cb, args>> >> ELSE cbs[t]]

\* the connect() calls made before start(): the two of __init__, then the
\* application's, as <<signal, cb, args>>
ConnectCalls ==
    << <<CONNECTION_LOST, "connection_lost", << >> >>,
       <<GIBBERISH, "gibberish", << >> >>,
       <<"msg", "on_msg", <<"u1">> >>,
       <<"signal", "on_signal", << >> >>,
       <<"msg", "on_msg_too", << >> >>,
       <<"exit", "on_exit", << >> >>,
       <<"replied", "on_replied", << >> >> >>

RECURSIVE Caller_connect_all(_, _)
Caller_connect_all(cbs, calls) ==
    IF calls = << >> THEN cbs
    ELSE Caller_connect_all(
            Caller_connect(cbs, Head(calls)[1], Head(calls)[2], Head(calls)[3]),
            Tail(calls))

Caller_init_callbacks_no_lost ==
    Caller_connect_all([t \in {} |-> << >>], Tail(ConnectCalls))

\* SubprocessCaller.__init__ hooks the two default handlers; the application
\* then subscribes its callbacks before it starts the caller
Caller_init_callbacks ==
    Caller_connect_all([t \in {} |-> << >>], ConnectCalls)

BridgeInit(plan, peer_writes) ==
    /\ role \in {"caller", "callee"}
    /\ method_whitelist = Whitelist(Callee_method_whitelist)
    /\ wrapped_object = TheWrappedObject
    /\ send_queue = << >>
    /\ protocol = NoProtocol
    /\ engine = NewEngine
    /\ wire_out = << >>
    /\ pipe_in = << >>
    /\ peer_eof = FALSE
    /\ peer_sent = << >>
    /\ dispatched = << >>
    /\ idle = << >>
    /\ timers = {}
    /\ ran = << >>
    /\ mainloop = "created"
    /\ sig_handler = "handle_signal"
    /\ process = NoProcess
    /\ child = "none"
    /\ signal_callbacks = Caller_init_callbacks
    /\ prod = [p \in Producers |-> [todo |-> plan[p], pc |-> "put"]]
    /\ peer_left = peer_writes
    /\ enq_log = << >>
    /\ hist = NoHist

\* the frame codec at rest, while the bridge runs
FrameIdle ==
    /\ f_in = FrameInput(OPCODE_BINARY, TRUE, 0, FALSE, NoKey)
    /\ f_frame = << >>
    /\ f_cut = -1
    /\ f_res = NoResult
    /\ f_next = NoResult

\* fault injection as the environment leaves it by default: the rate unset,
\* INJECT_FAULT = noop, no _counter
FaultIdle ==
    /\ fault_rate = FAULT_RATE
    /\ counter = 0
    /\ raw_writes = 0
    /\ fault_log = << >>

\* the callee at the far end of a caller's pipes, as constructed: its read
\* position in the caller's output, its read buffer, the callbacks its main
\* loop holds and has run, its send_queue, and its write loop
NewFar ==
    [rpos |-> 0, rbuf |-> << >>, dispatched |-> << >>, idle |-> << >>,
     ran |-> << >>, send_queue |-> << >>, has_more |-> FALSE, writer |-> "wait"]

\* what the other specifications use, at rest
\* the engine's codec before setup_fastencoder_nocompression ran
NoSetup ==
    [encoders |-> << >>, enableable |-> {}, encoder |-> "baseline",
     compressor |-> "default", tried |-> << >>, done |-> FALSE]

\* XpraTkClient.__init__: _ordinary_packets = [], no protocol yet
\* pc: where send() is, "idle" or "wake" (appended, have_more() to come)
\* writer: the engine's write loop, "off", "wait", "get", "write", "failed"
NewTk ==
    [packets |-> << >>, has_more |-> FALSE, writer |-> "off", wmore |-> FALSE,
     wbuf |-> << >>, written |-> << >>, failures |-> 0, sends |-> 0,
     pc |-> "idle"]

LateIdle == setup = NoSetup /\ tk = NewTk

\* large_packets = [] (lines 97, 326), handed to the engine by make_protocol
NewChunker ==
    [large_packets |-> {}, asked |-> << >>, next_seq |-> 1, sent |-> << >>,
     written |-> << >>, errors |-> 0, wire |-> << >>, table |-> << >>,
     delivered |-> << >>]

XIdle == FaultIdle /\ far = NewFar /\ chunker = NewChunker /\ LateIdle

\* both sides at once: one producer, one write of the peer
Init == BridgeInit(PlanA, 1) /\ FrameIdle /\ XIdle
\* the write side: two producers, a silent peer
InitWrite == BridgeInit(Plan, 0) /\ FrameIdle /\ XIdle
\* the read side: no producer, the peer writes
InitRead == BridgeInit(NoPlan, MaxPeerPackets) /\ FrameIdle /\ XIdle

\* history: the wire as it was when close() first took effect
NoteClose(h, e1) ==
    IF h.wire_at_close = -1 /\ e1.state \in EngineClosing
    THEN [h EXCEPT !.wire_at_close = Len(wire_out)]
    ELSE h

(***************************************************************************)
(* start()                                                                 *)
(***************************************************************************)
\* SubprocessCaller.start: exec_subprocess, make_protocol, protocol.start()
Caller_start ==
    /\ role = "caller"
    /\ process = NoProcess
    /\ engine.state = "CREATED"
    /\ process' = TheProcess
    /\ child' = "running"
    /\ protocol' = TheProtocol
    /\ engine' = Engine_start(engine)
    /\ UNCHANGED <<fvars, xvars>>
    /\ UNCHANGED <<role, method_whitelist, wrapped_object, send_queue, wire_out, pipe_in, peer_eof, peer_sent,
                   dispatched, idle, timers, ran, mainloop, sig_handler,
                   signal_callbacks, prod, peer_left, enq_log, hist>>

\* SubprocessCallee.start: make_protocol, protocol.start(), then run() enters
\* the main loop
Callee_start ==
    /\ role = "callee"
    /\ mainloop = "created"
    /\ engine.state = "CREATED"
    /\ protocol' = TheProtocol
    /\ engine' = Engine_start(engine)
    /\ mainloop' = "running"
    /\ UNCHANGED <<fvars, xvars>>
    /\ UNCHANGED <<role, method_whitelist, wrapped_object, send_queue, wire_out, pipe_in, peer_eof, peer_sent,
                   dispatched, idle, timers, ran, sig_handler, process, child,
                   signal_callbacks, prod, peer_left, enq_log, hist>>

(***************************************************************************)
(* send(), one producer thread: the put, then the wake                     *)
(***************************************************************************)
\* send, first half: packet = (packet_type, *args); self.send_queue.put(packet)
SendPut(p) ==
    /\ prod[p].pc = "put"
    /\ prod[p].todo # << >>
    /\ LET packet == Head(prod[p].todo)
       IN  /\ send_queue' = send_put(send_queue, packet)
           /\ enq_log' = Append(enq_log, packet)
    /\ prod' = [prod EXCEPT ![p].pc = "wake"]
    /\ UNCHANGED <<fvars, xvars>>
    /\ UNCHANGED <<role, method_whitelist, wrapped_object, protocol, engine, wire_out, pipe_in, peer_eof,
                   peer_sent, dispatched, idle, timers, ran, mainloop,
                   sig_handler, process, child, signal_callbacks, peer_left, hist>>

\* send, second half: p = self.protocol; if p: p.source_has_more();
\* INJECT_FAULT(p), which is noop at FAULT_RATE 0
SendWake(p) ==
    /\ prod[p].pc = "wake"
    /\ engine' = IF protocol = TheProtocol THEN Engine_source_has_more(engine)
                 ELSE engine
    /\ prod' = [prod EXCEPT ![p].pc = "put", ![p].todo = Tail(@)]
    /\ hist' = [hist EXCEPT !.woken = @ \/ protocol = TheProtocol,
                             !.early = @ + (IF engine.state = "CREATED" THEN 1 ELSE 0)]
    /\ UNCHANGED <<fvars, xvars>>
    /\ UNCHANGED <<role, method_whitelist, wrapped_object, send_queue, protocol, wire_out, pipe_in, peer_eof,
                   peer_sent, dispatched, idle, timers, ran, mainloop,
                   sig_handler, process, child, signal_callbacks, peer_left, enq_log>>

(***************************************************************************)
(* The engine's write loop                                                 *)
(***************************************************************************)
\* the loop, suspended on the wake signal, is woken
WriterWake ==
    /\ engine.state \in EngineOpen
    /\ engine.writer = "wait"
    /\ engine.has_more
    /\ engine' = [engine EXCEPT !.has_more = FALSE, !.writer = "get"]
    /\ UNCHANGED <<fvars, xvars>>
    /\ UNCHANGED <<role, method_whitelist, wrapped_object, send_queue, protocol, wire_out, pipe_in, peer_eof,
                   peer_sent, dispatched, idle, timers, ran, mainloop,
                   sig_handler, process, child, signal_callbacks, prod, peer_left, enq_log, hist>>

\* it pulls one packet through the owner's get_packet and encodes it
WriterGet ==
    /\ engine.state \in EngineOpen
    /\ engine.writer = "get"
    /\ LET got == get_packet_cb(send_queue)
       IN  /\ send_queue' = got.rest
           /\ engine' = IF got.item = NoPacket
                        THEN [engine EXCEPT !.writer = "wait"]
                        ELSE [engine EXCEPT !.writer = "write",
                                            !.wbuf = encode_packet(got.item),
                                            !.wmore = got.more]
    /\ UNCHANGED <<fvars, xvars>>
    /\ UNCHANGED <<role, method_whitelist, wrapped_object, protocol, wire_out, pipe_in, peer_eof, peer_sent,
                   dispatched, idle, timers, ran, mainloop, sig_handler,
                   process, child, signal_callbacks, prod, peer_left, enq_log, hist>>

\* how many bytes one Connection.write takes: the header only, or all
WriteCounts(buf) ==
    {Len(buf)} \cup (IF Len(buf) > HEADER_SIZE THEN {HEADER_SIZE} ELSE {})

\* it writes the packet's bytes; once they are all out it drains on when
\* more_pending was set, and suspends otherwise
WriterWrite ==
    /\ engine.state \in EngineOpen
    /\ engine.writer = "write"
    /\ \E n \in WriteCounts(engine.wbuf) :
        LET rest == Slice(engine.wbuf, n, Len(engine.wbuf))
        IN  /\ wire_out' = wire_out \o Slice(engine.wbuf, 0, n)
            /\ engine' = IF rest = << >>
                         THEN [Engine_exchanged(engine) EXCEPT
                                    !.wbuf = << >>,
                                    !.writer = IF engine.wmore THEN "get" ELSE "wait"]
                         ELSE [engine EXCEPT !.wbuf = rest]
    /\ UNCHANGED <<fvars, xvars>>
    /\ UNCHANGED <<role, method_whitelist, wrapped_object, send_queue, protocol, pipe_in, peer_eof, peer_sent,
                   dispatched, idle, timers, ran, mainloop, sig_handler,
                   process, child, signal_callbacks, prod, peer_left, enq_log, hist>>

\* the write loop observes the closure and ends
WriterStop ==
    /\ engine.state = "CLOSING"
    /\ engine.writer # "stopped"
    /\ engine' = Engine_loop_stopped(engine, "writer")
    /\ UNCHANGED <<fvars, xvars>>
    /\ UNCHANGED <<role, method_whitelist, wrapped_object, send_queue, protocol, wire_out, pipe_in, peer_eof,
                   peer_sent, dispatched, idle, timers, ran, mainloop,
                   sig_handler, process, child, signal_callbacks, prod, peer_left, enq_log, hist>>

\* the read loop observes the closure and ends
ReaderStop ==
    /\ engine.state = "CLOSING"
    /\ engine.reader # "stopped"
    /\ engine' = Engine_loop_stopped(engine, "reader")
    /\ UNCHANGED <<fvars, xvars>>
    /\ UNCHANGED <<role, method_whitelist, wrapped_object, send_queue, protocol, wire_out, pipe_in, peer_eof,
                   peer_sent, dispatched, idle, timers, ran, mainloop,
                   sig_handler, process, child, signal_callbacks, prod, peer_left, enq_log, hist>>

(***************************************************************************)
(* SubprocessCaller: stop() and the packets it receives                    *)
(***************************************************************************)
StopProtocol(p, e, closed) == [protocol |-> p, engine |-> e, closed |-> closed]

Caller_stop_protocol_no_close(p, e) ==
    IF p = TheProtocol THEN StopProtocol(NoProtocol, e, 0)
    ELSE StopProtocol(p, e, 0)

\* stop_protocol: p = self.protocol; if p: self.protocol = None; p.close()
Caller_stop_protocol(p, e) ==
    IF p = TheProtocol THEN StopProtocol(NoProtocol, Engine_close(e), 1)
    ELSE StopProtocol(p, e, 0)

Caller_stop_keep_process(h) ==
    LET kill == process = TheProcess /\ child \notin {"exited", "reaped"}
        sp == Caller_stop_protocol(protocol, engine)
    IN  /\ process' = process
        /\ child' = IF kill THEN "terminated" ELSE child
        /\ protocol' = sp.protocol
        /\ engine' = sp.engine
        /\ hist' = NoteClose([h EXCEPT !.terminate = @ + (IF kill THEN 1 ELSE 0),
                                       !.close_calls = @ + sp.closed],
                             sp.engine)

\* stop(): stop_process() -- terminate the child unless it has exited
\* (proc.poll() is None), do not wait for it -- then stop_protocol(); h is
\* the history so far
Caller_stop(h) ==
    LET kill == process = TheProcess /\ child \notin {"exited", "reaped"}
        sp == Caller_stop_protocol(protocol, engine)
    IN  /\ process' = NoProcess
        /\ child' = IF kill THEN "terminated" ELSE child
        /\ protocol' = sp.protocol
        /\ engine' = sp.engine
        /\ hist' = NoteClose([h EXCEPT !.terminate = @ + (IF kill THEN 1 ELSE 0),
                                       !.close_calls = @ + sp.closed],
                             sp.engine)

\* the application calls stop() (or cleanup(), which is stop())
CallerStop ==
    /\ role = "caller"
    /\ hist.stops < MaxStops
    /\ Caller_stop([hist EXCEPT !.stops = @ + 1])
    /\ UNCHANGED <<fvars, xvars>>
    /\ UNCHANGED <<role, method_whitelist, wrapped_object, send_queue, wire_out, pipe_in, peer_eof, peer_sent,
                   dispatched, idle, timers, ran, mainloop, sig_handler,
                   signal_callbacks, prod, peer_left, enq_log>>

\* what the application may subscribe later on, as <<signal, cb, args>>
LateConnects ==
    {<<CONNECTION_LOST, "on_lost", << >> >>,
     <<GIBBERISH, "on_gibberish", <<"u2">> >>,
     <<"other", "on_other", << >> >>}

\* the application calls connect(signal, cb, *args)
CallerConnect ==
    /\ role = "caller"
    /\ hist.connects < MaxConnects
    /\ \E c \in LateConnects :
            signal_callbacks' = Caller_connect(signal_callbacks, c[1], c[2], c[3])
    /\ hist' = [hist EXCEPT !.connects = @ + 1]
    /\ UNCHANGED <<fvars, xvars>>
    /\ UNCHANGED <<role, method_whitelist, wrapped_object, send_queue, protocol, engine,
                   wire_out, pipe_in, peer_eof, peer_sent, dispatched, idle, timers,
                   ran, mainloop, sig_handler, process, child, prod, peer_left,
                   enq_log>>

\* the caller instance, first argument of every callback
TheCaller == "self"

RECURSIVE Caller_schedule(_, _, _, _)
\* the entries GLib.idle_add is given for the registrations from the i-th on;
\* failing holds the registrations for which scheduling raises, an error
\* that log.trap_error logs and swallows
Caller_schedule(callbacks, extra_args, failing, i) ==
    IF i > Len(callbacks) THEN << >>
    ELSE (IF i \in failing THEN << >>
          ELSE <<IdleEntry(callbacks[i][1],
                           <<TheCaller>> \o callbacks[i][2] \o extra_args)>>)
         \o Caller_schedule(callbacks, extra_args, failing, i + 1)

Caller_fire_callback_reversed(cbs, signal_name, extra_args, failing) ==
    LET callbacks == IF signal_name \in DOMAIN cbs THEN cbs[signal_name] ELSE << >>
    IN  Caller_schedule([i \in 1..Len(callbacks) |-> callbacks[Len(callbacks) + 1 - i]],
                        extra_args, failing, 1)

Caller_fire_callback_untrapped(cbs, signal_name, extra_args, failing) ==
    LET callbacks == IF signal_name \in DOMAIN cbs THEN cbs[signal_name] ELSE << >>
        upto == IF \E k \in failing : k <= Len(callbacks)
                THEN (CHOOSE k \in failing : \A j \in failing : k <= j) - 1
                ELSE Len(callbacks)
    IN  Caller_schedule(SubSeq(callbacks, 1, upto), extra_args, {}, 1)

Caller_fire_callback_no_self(cbs, signal_name, extra_args, failing) ==
    LET callbacks == IF signal_name \in DOMAIN cbs THEN cbs[signal_name] ELSE << >>
    IN  [i \in 1..Len(callbacks) |->
            IdleEntry(callbacks[i][1], callbacks[i][2] \o extra_args)]

\* _fire_callback(signal_name, extra_args): for each (cb, args) registered,
\* in order, GLib.idle_add(cb, self, *args, *extra_args), each inside its own
\* log.trap_error; the result is what gets appended to the main loop's queue
Caller_fire_callback(cbs, signal_name, extra_args, failing) ==
    LET callbacks == IF signal_name \in DOMAIN cbs THEN cbs[signal_name] ELSE << >>
    IN  Caller_schedule(callbacks, extra_args, failing, 1)

\* what process_packet asks of the main loop and of the process
Processed(entries, exit) ==
    [idle_add |-> entries, sys_exit |-> exit, called |-> << >>]

Caller_process_packet_twice(cbs, packet, failing) ==
    Processed(Caller_fire_callback(cbs, packet[1], Tail(packet), failing)
                \o Caller_fire_callback(cbs, packet[1], Tail(packet), failing), FALSE)

\* process_packet(proto, packet): signal_name = packet.get_str(0);
\* self._fire_callback(signal_name, packet[1:]); INJECT_FAULT is noop
Caller_process_packet(cbs, packet, failing) ==
    Processed(Caller_fire_callback(cbs, packet[1], Tail(packet), failing), FALSE)

(***************************************************************************)
(* SubprocessCaller: the child process and send() from the main thread     *)
(***************************************************************************)
\* proc.poll() is not None: the child is gone
Exited == {"exited", "reaped"}

\* the child exits, of its own accord or of the SIGTERM it was sent; its end
\* of the pipes closes with it
ChildExit ==
    /\ role = "caller"
    /\ child \in {"running", "terminated"}
    /\ child' = "exited"
    /\ peer_eof' = TRUE
    /\ UNCHANGED <<fvars, xvars>>
    /\ UNCHANGED <<role, method_whitelist, wrapped_object, send_queue, protocol, engine,
                   wire_out, pipe_in, peer_sent, dispatched, idle, timers, ran,
                   mainloop, sig_handler, process, signal_callbacks, prod,
                   peer_left, enq_log, hist>>

Caller_subprocess_exit_unexpected(cbs, proc) ==
    IF proc = NoProcess THEN << >>
    ELSE Caller_fire_callback(cbs, "exit", << >>, {})

Caller_subprocess_exit_guarded(cbs, proc) ==
    IF \E i \in 1..Len(idle) : idle[i].fn = "on_exit" THEN << >>
    ELSE IF \E i \in 1..Len(ran) : ran[i].fn = "on_exit" THEN << >>
    ELSE Caller_fire_callback(cbs, "exit", << >>, {})

\* subprocess_exit(*args): self._fire_callback("exit"); proc is self.process
Caller_subprocess_exit(cbs, proc) ==
    Caller_fire_callback(cbs, "exit", << >>, {})

\* the exit watcher that exec_subprocess registered with the child reaper
\* finds the child gone and calls subprocess_exit
ChildReaped ==
    /\ role = "caller"
    /\ child = "exited"
    /\ child' = "reaped"
    /\ idle' = idle \o Caller_subprocess_exit(signal_callbacks, process)
    /\ UNCHANGED <<fvars, xvars>>
    /\ UNCHANGED <<role, method_whitelist, wrapped_object, send_queue, protocol, engine,
                   wire_out, pipe_in, peer_eof, peer_sent, dispatched, timers, ran,
                   mainloop, sig_handler, process, signal_callbacks, prod,
                   peer_left, enq_log, hist>>

\* the connection make_protocol built was closed, by the engine's close():
\* it calls the close_cb it was given, subprocess_exit, once
ConnectionClosed ==
    /\ role = "caller"
    /\ engine.conn_closed >= 1
    /\ hist.close_cb = 0
    /\ hist' = [hist EXCEPT !.close_cb = 1]
    /\ idle' = idle \o Caller_subprocess_exit(signal_callbacks, process)
    /\ UNCHANGED <<fvars, xvars>>
    /\ UNCHANGED <<role, method_whitelist, wrapped_object, send_queue, protocol, engine,
                   wire_out, pipe_in, peer_eof, peer_sent, dispatched, timers, ran,
                   mainloop, sig_handler, process, child, signal_callbacks, prod,
                   peer_left, enq_log>>

\* what send() did: whether it raised ConnectionClosedException, and
\* whether it left the packet on the queue
Sent(raised, queued) == [raised |-> raised, queued |-> queued]

\* SubprocessCaller.send(packet_type, *packet_data): put the packet, wake the
\* engine if there is one; no path of it raises ConnectionClosedException
Caller_send(packet) ==
    /\ send_queue' = Caller_send_put(send_queue, packet)
    /\ enq_log' = Append(enq_log, packet)
    /\ engine' = IF protocol = TheProtocol THEN Engine_source_has_more(engine)
                 ELSE engine
    /\ hist' = [hist EXCEPT !.send_log = Append(@,
                    [gone |-> child \in Exited,
                     did |-> Sent(FALSE, TRUE)])]

\* the application calls send() from the main thread
CallerSend ==
    /\ role = "caller"
    /\ Len(hist.send_log) < MaxSends
    /\ \E packet \in {PacketA1, PacketA2} : Caller_send(packet)
    /\ INJECT_FAULT(protocol, "send")
    /\ UNCHANGED <<fvars, far, chunker, latevars>>
    /\ UNCHANGED <<role, method_whitelist, wrapped_object, protocol, wire_out, pipe_in,
                   peer_eof, peer_sent, dispatched, idle, timers, ran, mainloop,
                   sig_handler, process, child, signal_callbacks, prod, peer_left>>

(***************************************************************************)
(* SubprocessCallee: stop(), OS signals and the packets it receives        *)
(***************************************************************************)
\* command.replace("-", "_")
Underscored(command) ==
    IF command = CONNECTION_LOST THEN "connection_lost"
    ELSE IF command = "do-it" THEN "do_it"
    ELSE command

\* net_stop(): GLib.idle_add(self.stop)
Callee_net_stop_unscheduled == << >>

\* net_stop: GLib.idle_add(self.stop)
Callee_net_stop == <<IdleEntry("stop", << >>)>>

Callee_process_packet_no_stop(packet) ==
    LET command == packet[1]
    IN  IF command \in {CONNECTION_LOST, GIBBERISH, "stop"} THEN Processed(<< >>, FALSE)
        ELSE Processed(<<MethodEntry(Underscored(command), Tail(packet))>>, FALSE)

Callee_process_packet_no_whitelist(packet) ==
    LET command == packet[1]
        attr == Underscored(command)
    IN  IF command \in {CONNECTION_LOST, GIBBERISH, "stop"} THEN Processed(Callee_net_stop, FALSE)
        ELSE IF command = "exit" THEN Processed(<< >>, TRUE)
        ELSE IF wrapped_object = NoWrappedObject THEN Processed(<< >>, FALSE)
        ELSE IF attr \notin WrappedMethods THEN Processed(<< >>, FALSE)
        ELSE Processed(<<MethodEntry(attr, Tail(packet))>>, FALSE)

Callee_process_packet_fatal(packet) ==
    LET command == packet[1]
        attr == Underscored(command)
    IN  IF command \in {CONNECTION_LOST, GIBBERISH, "stop"} THEN Processed(Callee_net_stop, FALSE)
        ELSE IF command = "exit" THEN Processed(<< >>, TRUE)
        ELSE IF method_whitelist.configured /\ attr \notin method_whitelist.names
             THEN Processed(Callee_net_stop, FALSE)
        ELSE IF wrapped_object = NoWrappedObject THEN Processed(<< >>, FALSE)
        ELSE IF attr \notin WrappedMethods THEN Processed(<< >>, FALSE)
        ELSE Processed(<<MethodEntry(attr, Tail(packet))>>, FALSE)

Callee_process_packet_stop_late(packet) ==
    LET command == packet[1]
        attr == Underscored(command)
        allowed == ~method_whitelist.configured \/ attr \in method_whitelist.names
    IN  IF allowed /\ wrapped_object # NoWrappedObject /\ attr \in WrappedMethods
        THEN Processed(<<MethodEntry(attr, Tail(packet))>>, FALSE)
        ELSE IF command \in {CONNECTION_LOST, GIBBERISH, "stop"} THEN Processed(Callee_net_stop, FALSE)
        ELSE IF command = "exit" THEN Processed(<< >>, TRUE)
        ELSE Processed(<< >>, FALSE)

Callee_process_packet_signal_reserved(packet) ==
    LET command == packet[1]
        attr == Underscored(command)
    IN  IF command \in {CONNECTION_LOST, GIBBERISH, "stop"} THEN Processed(Callee_net_stop, FALSE)
        ELSE IF command = "exit" THEN Processed(<< >>, TRUE)
        ELSE IF command = "signal" THEN Processed(<< >>, FALSE)
        ELSE IF method_whitelist.configured /\ attr \notin method_whitelist.names
             THEN Processed(<< >>, FALSE)
        ELSE IF wrapped_object = NoWrappedObject THEN Processed(<< >>, FALSE)
        ELSE IF attr \notin WrappedMethods THEN Processed(<< >>, FALSE)
        ELSE Processed(<<MethodEntry(attr, Tail(packet))>>, FALSE)

Callee_process_packet_inline(packet) ==
    LET command == packet[1]
        attr == Underscored(command)
    IN  IF command \in {CONNECTION_LOST, GIBBERISH, "stop"} THEN Processed(Callee_net_stop, FALSE)
        ELSE IF command = "exit" THEN Processed(<< >>, TRUE)
        ELSE IF method_whitelist.configured /\ attr \notin method_whitelist.names
             THEN Processed(<< >>, FALSE)
        ELSE IF wrapped_object = NoWrappedObject THEN Processed(<< >>, FALSE)
        ELSE IF attr \notin WrappedMethods THEN Processed(<< >>, FALSE)
        ELSE [idle_add |-> << >>, sys_exit |-> FALSE,
              called |-> <<MethodEntry(attr, Tail(packet))>>]

\* process_packet(proto, packet)
Callee_process_packet(packet) ==
    LET command == packet[1]
        attr == Underscored(command)
    IN  IF command = CONNECTION_LOST THEN Processed(Callee_net_stop, FALSE)
        ELSE IF command = GIBBERISH THEN Processed(Callee_net_stop, FALSE)
        ELSE IF command = "stop" THEN Processed(Callee_net_stop, FALSE)
        ELSE IF command = "exit" THEN Processed(<< >>, TRUE)
        ELSE IF method_whitelist.configured /\ attr \notin method_whitelist.names
             THEN Processed(<< >>, FALSE)
        ELSE IF wrapped_object = NoWrappedObject THEN Processed(<< >>, FALSE)
        ELSE IF attr \notin WrappedMethods THEN Processed(<< >>, FALSE)
        ELSE Processed(<<MethodEntry(attr, Tail(packet))>>, FALSE)

\* connect_export(signal_name, *user_data): the handler the wrapped object is
\* given is self.export, with user_data + [signal_name] as its extra
\* arguments
Callee_connect_export(signal_name, user_data) ==
    [signal |-> signal_name, args |-> user_data \o <<signal_name>>]

\* the connect_export() calls the callee's subclass makes when constructed
ExportCalls ==
    {Callee_connect_export("replied", << >>),
     Callee_connect_export("other", <<"b1">>)}

\* what the wrapped object's events carry
EventArgs == {<< >>, <<"hi">>, <<"a1", "a2">>}

\* how the object calls a handler: handler(emitter, *event_args, *extra)
HandlerArgs(emitter, event_args, extra) == <<emitter>> \o event_args \o extra

Callee_export_with_emitter(args) ==
    <<args[Len(args)]>> \o SubSeq(args, 1, Len(args) - 1)

\* export(*args): signal_name = args[-1]; data = args[1:-1];
\* the packet that self.send(signal_name, *data) builds
Callee_export(args) ==
    <<args[Len(args)]>> \o SubSeq(args, 2, Len(args) - 1)

\* SubprocessCallee.send(packet_type, *args): put the packet, wake the engine
\* if there is one
Callee_send(packet) ==
    /\ send_queue' = Callee_send_put(send_queue, packet)
    /\ enq_log' = Append(enq_log, packet)
    /\ engine' = IF protocol = TheProtocol THEN Engine_source_has_more(engine)
                 ELSE engine

\* the wrapped object emits an exported event: export runs, and sends
Emit ==
    /\ role = "callee"
    /\ wrapped_object = TheWrappedObject
    /\ Len(hist.emit_log) < MaxEmits
    /\ \E reg \in ExportCalls, event_args \in EventArgs :
            /\ Callee_send(Callee_export(
                    HandlerArgs(wrapped_object, event_args, reg.args)))
            /\ hist' = [hist EXCEPT !.emit_log = Append(@,
                            [signal |-> reg.signal, event_args |-> event_args,
                             user_data |-> SubSeq(reg.args, 1, Len(reg.args) - 1)])]
    /\ INJECT_FAULT(protocol, "send")
    /\ UNCHANGED <<fvars, far, chunker, latevars>>
    /\ UNCHANGED <<role, method_whitelist, wrapped_object, protocol, wire_out, pipe_in,
                   peer_eof, peer_sent, dispatched, idle, timers, ran, mainloop,
                   sig_handler, process, child, signal_callbacks, prod, peer_left>>

Callee_stop_no_cleanup(h) ==
    LET p == protocol
        e1 == IF p = TheProtocol THEN Engine_close(engine) ELSE engine
    IN  /\ protocol' = NoProtocol
        /\ engine' = e1
        /\ mainloop' = "quit"
        /\ hist' = NoteClose([h EXCEPT !.stop_runs = @ + 1,
                                       !.close_calls = @ + (IF p = TheProtocol THEN 1 ELSE 0)],
                             e1)

Callee_stop_keep_protocol(h) ==
    LET p == protocol
        e1 == IF p = TheProtocol THEN Engine_close(engine) ELSE engine
    IN  /\ protocol' = protocol
        /\ engine' = e1
        /\ mainloop' = "quit"
        /\ hist' = NoteClose([h EXCEPT !.stop_runs = @ + 1,
                                       !.cleanup = @ + 1,
                                       !.close_calls = @ + (IF p = TheProtocol THEN 1 ELSE 0)],
                             e1)

\* stop(): cleanup(); if p: self.protocol = None; p.close(); do_stop() quits
\* the main loop; h is the history so far
Callee_stop(h) ==
    LET p == protocol
        e1 == IF p = TheProtocol THEN Engine_close(engine) ELSE engine
    IN  /\ protocol' = NoProtocol
        /\ engine' = e1
        /\ mainloop' = "quit"
        /\ hist' = NoteClose([h EXCEPT !.stop_runs = @ + 1,
                                       !.cleanup = @ + 1,
                                       !.close_calls = @ + (IF p = TheProtocol THEN 1 ELSE 0)],
                             e1)

\* the OS signals the callee registers for, by name (SIGNAMES)
Signals == {"SIGINT", "SIGTERM"}

Callee_handle_signal_abrupt(sig) ==
    /\ sig_handler' = "signal_stop"
    /\ send_queue' = send_put(send_queue, <<"signal", sig>>)
    /\ enq_log' = Append(enq_log, <<"signal", sig>>)
    /\ timers' = timers \cup {"cleanup", "stop"}
    /\ Callee_stop([hist EXCEPT !.signals = @ + 1])

Callee_handle_signal_unsent(sig) ==
    /\ sig_handler' = "signal_stop"
    /\ timers' = timers \cup {"cleanup", "stop"}
    /\ hist' = [hist EXCEPT !.signals = @ + 1]
    /\ UNCHANGED <<send_queue, enq_log, protocol, engine, mainloop>>

\* handle_signal(sig), the handler of the first signal: register signal_stop
\* for the next one, send("signal", signame), timeout_add(0, cleanup),
\* timeout_add(150, stop)
Callee_handle_signal(sig) ==
    /\ sig_handler' = "signal_stop"
    /\ send_queue' = send_put(send_queue, <<"signal", sig>>)
    /\ enq_log' = Append(enq_log, <<"signal", sig>>)
    /\ engine' = IF protocol = TheProtocol
                 THEN Engine_source_has_more(engine) ELSE engine
    /\ timers' = timers \cup {"cleanup", "stop"}
    /\ hist' = [hist EXCEPT !.signals = @ + 1]
    /\ UNCHANGED <<protocol, mainloop>>

Callee_signal_stop_deferred(sig) ==
    /\ timers' = timers \cup {"stop"}
    /\ hist' = [hist EXCEPT !.signals = @ + 1]
    /\ UNCHANGED <<sig_handler, send_queue, enq_log, protocol, engine, mainloop>>

\* signal_stop(sig), the handler from then on: stop()
Callee_signal_stop(sig) ==
    /\ Callee_stop([hist EXCEPT !.signals = @ + 1])
    /\ UNCHANGED <<sig_handler, send_queue, enq_log, timers>>

\* An OS signal (SIGINT, SIGTERM) reaches the callee's main loop, which calls
\* the handler registered last.
Signal ==
    /\ role = "callee"
    /\ mainloop = "running"
    /\ hist.signals < MaxSignals
    /\ \E sig \in Signals :
        IF sig_handler = "handle_signal"
        THEN Callee_handle_signal(sig)
        ELSE Callee_signal_stop(sig)
    /\ UNCHANGED <<fvars, xvars>>
    /\ UNCHANGED <<role, method_whitelist, wrapped_object, wire_out, pipe_in, peer_eof, peer_sent, dispatched,
                   idle, ran, process, child, signal_callbacks, prod, peer_left>>

\* a timeout of the callee's main loop expires: cleanup after 0 ms, stop
\* after 150 ms
TimerFire ==
    /\ role = "callee"
    /\ mainloop = "running"
    /\ \/ /\ "cleanup" \in timers
          /\ timers' = timers \ {"cleanup"}
          /\ hist' = [hist EXCEPT !.cleanup = @ + 1]
          /\ UNCHANGED <<protocol, engine, mainloop>>
       \/ /\ "stop" \in timers
          /\ "cleanup" \notin timers
          /\ timers' = timers \ {"stop"}
          /\ Callee_stop(hist)
    /\ UNCHANGED <<fvars, xvars>>
    /\ UNCHANGED <<role, method_whitelist, wrapped_object, send_queue, wire_out, pipe_in, peer_eof, peer_sent,
                   dispatched, idle, ran, sig_handler, process, child,
                   signal_callbacks, prod, peer_left, enq_log>>

(***************************************************************************)
(* The main loop runs the callbacks scheduled with idle_add, oldest first  *)
(***************************************************************************)
IdleRun ==
    /\ idle # << >>
    /\ role = "callee" => mainloop = "running"
    /\ idle' = Tail(idle)
    /\ ran' = Append(ran, Head(idle))
    /\ LET fn == Head(idle).fn
       IN  IF role = "caller" /\ fn \in {"connection_lost", "gibberish"}
           THEN /\ Caller_stop(hist)
                /\ UNCHANGED mainloop
           ELSE IF role = "callee" /\ fn = "stop" /\ ~Head(idle).wo
           THEN /\ Callee_stop(hist)
                /\ UNCHANGED <<process, child>>
           ELSE UNCHANGED <<protocol, engine, mainloop, process, child, hist>>
    /\ UNCHANGED <<fvars, xvars>>
    /\ UNCHANGED <<role, method_whitelist, wrapped_object, send_queue, wire_out, pipe_in, peer_eof, peer_sent,
                   dispatched, timers, sig_handler, signal_callbacks, prod, peer_left,
                   enq_log>>

(***************************************************************************)
(* The peer at the far end of the connection                               *)
(***************************************************************************)
\* what the peer may send: to a caller the callee's signals, to a callee the
\* caller's commands
PeerPackets ==
    IF role = "caller"
    THEN {<<"msg", "a1">>, <<"msg", "a2">>, <<"other", "hi">>,
          <<"signal", "SIGTERM">>}
    ELSE {<<"msg", "a1">>, <<"msg", "a2">>, <<"stop">>}

\* bytes that are no packet: "JUNK!!!"
Junk == <<74, 85, 78, 75, 33, 33, 33>>
JunkMark == <<"junk">>

\* the peer writes one packet, or junk, into the connection
PeerWrite ==
    /\ engine.state \in EngineOpen
    /\ ~peer_eof
    /\ peer_left > 0
    /\ peer_left' = peer_left - 1
    /\ \/ \E packet \in PeerPackets :
            /\ pipe_in' = pipe_in \o encode_packet(packet)
            /\ peer_sent' = Append(peer_sent, packet)
       \/ /\ pipe_in' = pipe_in \o Junk
          /\ peer_sent' = Append(peer_sent, JunkMark)
    /\ UNCHANGED <<fvars, xvars>>
    /\ UNCHANGED <<role, method_whitelist, wrapped_object, send_queue, protocol, engine, wire_out, peer_eof,
                   dispatched, idle, timers, ran, mainloop, sig_handler,
                   process, child, signal_callbacks, prod, enq_log, hist>>

\* the commands a caller may send to a callee: plain ones, one with a hyphen,
\* one that names no method, and tags the bridge itself uses
CalleeCommands ==
    {<<"msg", "a1">>, <<"do-it", "hi">>, <<"other", "hi">>, <<"bogus">>,
     <<"signal", "SIGTERM">>, <<"stop">>, <<"exit">>, <<CONNECTION_LOST>>,
     <<GIBBERISH, "excerpt">>}

\* the caller at the far end sends the callee one command
PeerCommand ==
    /\ role = "callee"
    /\ engine.state \in EngineOpen
    /\ ~peer_eof
    /\ peer_left > 0
    /\ peer_left' = peer_left - 1
    /\ \E packet \in CalleeCommands :
            /\ pipe_in' = pipe_in \o encode_packet(packet)
            /\ peer_sent' = Append(peer_sent, packet)
    /\ UNCHANGED <<fvars, xvars>>
    /\ UNCHANGED <<role, method_whitelist, wrapped_object, send_queue, protocol, engine, wire_out, peer_eof,
                   dispatched, idle, timers, ran, mainloop, sig_handler,
                   process, child, signal_callbacks, prod, enq_log, hist>>

\* the peer closes its end (or dies): the engine will read EOF
PeerClose ==
    /\ engine.state \in EngineOpen
    /\ ~peer_eof
    /\ peer_eof' = TRUE
    /\ UNCHANGED <<fvars, xvars>>
    /\ UNCHANGED <<role, method_whitelist, wrapped_object, send_queue, protocol, engine, wire_out, pipe_in,
                   peer_sent, dispatched, idle, timers, ran, mainloop,
                   sig_handler, process, child, signal_callbacks, prod, peer_left,
                   enq_log, hist>>

(***************************************************************************)
(* The engine's read loop                                                  *)
(***************************************************************************)
\* the owner's process_packet, as make_protocol hands it to the engine
process_packet_cb(packet) ==
    IF role = "caller" THEN Caller_process_packet(signal_callbacks, packet, {})
    ELSE Callee_process_packet(packet)

\* process_packet got as far as its last line, INJECT_FAULT(proto): the
\* caller's always does, the callee's when it scheduled a method
HookReached(packet) ==
    \/ role = "caller"
    \/ \E i \in 1..Len(process_packet_cb(packet).idle_add) :
            process_packet_cb(packet).idle_add[i].wo
    \/ \E i \in 1..Len(process_packet_cb(packet).called) :
            process_packet_cb(packet).called[i].wo

\* the hook at the end of process_packet; proto is the engine itself
ProcessInject(packet) ==
    IF HookReached(packet) THEN INJECT_FAULT(TheProtocol, "process")
    ELSE UNCHANGED faultvars

\* how many bytes one Connection.read returns: all there is, or a part that
\* ends inside a header, or at the end of one
ReadCounts(avail) ==
    {Len(avail)} \cup {n \in {3, HEADER_SIZE} : n < Len(avail)}

\* read more bytes into the buffer, when it holds no whole packet
ReaderRead ==
    /\ engine.state \in EngineOpen
    /\ engine.reader = "read"
    /\ decode_packet(engine.rbuf).status = "incomplete"
    /\ pipe_in # << >>
    /\ \E n \in ReadCounts(pipe_in) :
        /\ engine' = [engine EXCEPT !.rbuf = @ \o Slice(pipe_in, 0, n)]
        /\ pipe_in' = Slice(pipe_in, n, Len(pipe_in))
    /\ UNCHANGED <<fvars, xvars>>
    /\ UNCHANGED <<role, method_whitelist, wrapped_object, send_queue, protocol, wire_out, peer_eof, peer_sent,
                   dispatched, idle, timers, ran, mainloop, sig_handler,
                   process, child, signal_callbacks, prod, peer_left, enq_log, hist>>

Engine_dispatch_keep(e, length) == Engine_exchanged(e)

\* the engine's side of dispatching one decoded packet: it leaves the buffer
Engine_dispatch(e, length) ==
    [Engine_exchanged(e) EXCEPT !.rbuf = Slice(@, length, Len(@))]

\* the buffer starts with a whole packet: hand it to process_packet, once,
\* synchronously
ReaderDispatch ==
    /\ engine.state \in EngineOpen
    /\ engine.reader = "read"
    /\ LET d == decode_packet(engine.rbuf)
       IN  /\ d.status = "ok"
           /\ engine' = Engine_dispatch(engine, d.length)
           /\ dispatched' = Append(dispatched, d.packet)
           /\ idle' = idle \o process_packet_cb(d.packet).idle_add
           /\ ran' = ran \o process_packet_cb(d.packet).called
           /\ hist' = [hist EXCEPT !.sys_exit = @ +
                            (IF process_packet_cb(d.packet).sys_exit THEN 1 ELSE 0)]
    /\ ProcessInject(decode_packet(engine.rbuf).packet)
    /\ UNCHANGED <<fvars, far, chunker, latevars>>
    /\ UNCHANGED <<role, method_whitelist, wrapped_object, send_queue, protocol, wire_out, pipe_in, peer_eof,
                   peer_sent, timers, mainloop, sig_handler, process,
                   child, signal_callbacks, prod, peer_left, enq_log>>

\* how many registrations one tag has at most
MaxRegistrations == 2

\* the same at a caller, when scheduling one of the tag's callbacks raises
ReaderDispatchFailing ==
    /\ role = "caller"
    /\ engine.state \in EngineOpen
    /\ engine.reader = "read"
    /\ LET d == decode_packet(engine.rbuf)
       IN  /\ d.status = "ok"
           /\ \E k \in 1..MaxRegistrations :
                LET done == Caller_process_packet(signal_callbacks, d.packet, {k})
                IN  /\ d.packet[1] \in DOMAIN signal_callbacks
                    /\ k <= Len(signal_callbacks[d.packet[1]])
                    /\ engine' = Engine_dispatch(engine, d.length)
                    /\ dispatched' = Append(dispatched, d.packet)
                    /\ idle' = idle \o done.idle_add
                    /\ ran' = ran \o done.called
                    /\ hist' = [hist EXCEPT !.failures =
                                    @ \cup {<<Len(dispatched) + 1, k>>}]
    /\ ProcessInject(decode_packet(engine.rbuf).packet)
    /\ UNCHANGED <<fvars, far, chunker, latevars>>
    /\ UNCHANGED <<role, method_whitelist, wrapped_object, send_queue, protocol, wire_out, pipe_in, peer_eof,
                   peer_sent, timers, mainloop, sig_handler, process,
                   child, signal_callbacks, prod, peer_left, enq_log>>

\* the reserved notifications the engine makes up itself
GibberishNotice == <<GIBBERISH, "excerpt">>
ConnectionLostNotice == <<CONNECTION_LOST>>

\* the read loop ends on an error: the engine closes locally and tells the
\* owner, once
Engine_read_failed(e) ==
    Engine_loop_stopped(Engine_close(e), "reader")

\* the buffer holds what is no packet: gibberish
ReaderGibberish ==
    /\ engine.state \in EngineOpen
    /\ engine.reader = "read"
    /\ decode_packet(engine.rbuf).status = "gibberish"
    /\ engine' = Engine_read_failed(engine)
    /\ dispatched' = Append(dispatched, GibberishNotice)
    /\ idle' = idle \o process_packet_cb(GibberishNotice).idle_add
    /\ ran' = ran \o process_packet_cb(GibberishNotice).called
    /\ hist' = NoteClose(hist, engine')
    /\ ProcessInject(GibberishNotice)
    /\ UNCHANGED <<fvars, far, chunker, latevars>>
    /\ UNCHANGED <<role, method_whitelist, wrapped_object, send_queue, protocol, wire_out, pipe_in, peer_eof,
                   peer_sent, timers, mainloop, sig_handler, process,
                   child, signal_callbacks, prod, peer_left, enq_log>>

\* read() meets EOF (the peer closed, was reset, or the timeout expired):
\* connection lost
ReaderEOF ==
    /\ engine.state \in EngineOpen
    /\ engine.reader = "read"
    /\ decode_packet(engine.rbuf).status = "incomplete"
    /\ pipe_in = << >>
    /\ peer_eof
    /\ engine' = Engine_read_failed(engine)
    /\ dispatched' = Append(dispatched, ConnectionLostNotice)
    /\ idle' = idle \o process_packet_cb(ConnectionLostNotice).idle_add
    /\ ran' = ran \o process_packet_cb(ConnectionLostNotice).called
    /\ hist' = NoteClose(hist, engine')
    /\ ProcessInject(ConnectionLostNotice)
    /\ UNCHANGED <<fvars, far, chunker, latevars>>
    /\ UNCHANGED <<role, method_whitelist, wrapped_object, send_queue, protocol, wire_out, pipe_in, peer_eof,
                   peer_sent, timers, mainloop, sig_handler, process,
                   child, signal_callbacks, prod, peer_left, enq_log>>

(***************************************************************************)
(* End to end: a caller, and in its child process a callee wrapping an     *)
(* echo object.  The caller's side is the bridge above with role "caller"; *)
(* the callee reads what the caller's engine wrote (wire_out) and writes   *)
(* what the caller's engine reads (pipe_in).                               *)
(***************************************************************************)
\* the commands the caller's application sends
EchoCommands == {<<"echo", "hi">>, <<"msg", "a1">>}

\* the application calls send() on a started caller
CallerSendEcho ==
    /\ role = "caller"
    /\ protocol = TheProtocol
    /\ Len(hist.send_log) < MaxEchoes
    /\ \E packet \in EchoCommands : Caller_send(packet)
    /\ INJECT_FAULT(protocol, "send")
    /\ UNCHANGED <<fvars, far, chunker, latevars>>
    /\ UNCHANGED <<role, method_whitelist, wrapped_object, protocol, wire_out, pipe_in,
                   peer_eof, peer_sent, dispatched, idle, timers, ran, mainloop,
                   sig_handler, process, child, signal_callbacks, prod, peer_left>>

\* the callee's side leaves the caller's alone, but for the pipe it writes to
FarFrame ==
    /\ UNCHANGED <<fvars, faultvars, chunker, latevars>>
    /\ UNCHANGED <<role, method_whitelist, wrapped_object, send_queue, protocol, engine,
                   wire_out, peer_eof, dispatched, idle, timers, ran, mainloop,
                   sig_handler, process, child, signal_callbacks, prod, peer_left,
                   enq_log, hist>>

\* the callee's engine reads what the caller wrote
FarRead ==
    /\ role = "caller"
    /\ child = "running"
    /\ decode_packet(far.rbuf).status = "incomplete"
    /\ far.rpos < Len(wire_out)
    /\ \E n \in ReadCounts(Slice(wire_out, far.rpos, Len(wire_out))) :
            far' = [far EXCEPT !.rbuf = @ \o Slice(wire_out, far.rpos, far.rpos + n),
                               !.rpos = @ + n]
    /\ UNCHANGED <<pipe_in, peer_sent>>
    /\ FarFrame

\* and hands each whole packet to SubprocessCallee.process_packet
FarDispatch ==
    /\ role = "caller"
    /\ child = "running"
    /\ LET d == decode_packet(far.rbuf)
       IN  /\ d.status = "ok"
           /\ far' = [far EXCEPT
                        !.rbuf = Slice(@, d.length, Len(@)),
                        !.dispatched = Append(@, d.packet),
                        !.idle = @ \o Callee_process_packet(d.packet).idle_add,
                        !.ran = @ \o Callee_process_packet(d.packet).called]
    /\ UNCHANGED <<pipe_in, peer_sent>>
    /\ FarFrame

\* the echo object: echo(x) emits replied(x), which is exported
EchoObject(entry) ==
    IF entry.wo /\ entry.fn = "echo"
    THEN <<Callee_export(HandlerArgs(TheWrappedObject, entry.args,
                                     Callee_connect_export("replied", << >>).args))>>
    ELSE << >>

\* the callee's main loop runs a scheduled method; what the object emits is
\* sent: put on the callee's queue, and its engine woken
FarIdleRun ==
    /\ role = "caller"
    /\ child = "running"
    /\ far.idle # << >>
    /\ LET sent == EchoObject(Head(far.idle))
       IN  far' = [far EXCEPT
                    !.idle = Tail(@),
                    !.ran = Append(@, Head(far.idle)),
                    !.send_queue = IF sent = << >> THEN @
                                   ELSE Callee_send_put(@, sent[1]),
                    !.has_more = @ \/ sent # << >>]
    /\ UNCHANGED <<pipe_in, peer_sent>>
    /\ FarFrame

\* the callee's write loop is woken
FarWriterWake ==
    /\ role = "caller"
    /\ child = "running"
    /\ far.writer = "wait"
    /\ far.has_more
    /\ far' = [far EXCEPT !.has_more = FALSE, !.writer = "get"]
    /\ UNCHANGED <<pipe_in, peer_sent>>
    /\ FarFrame

\* and pulls one packet through SubprocessCallee.get_packet and writes it
FarWriterWrite ==
    /\ role = "caller"
    /\ child = "running"
    /\ far.writer = "get"
    /\ LET got == Callee_get_packet(far.send_queue)
       IN  /\ far' = [far EXCEPT !.send_queue = got.rest,
                                  !.writer = IF got.more THEN "get" ELSE "wait"]
           /\ pipe_in' = IF got.item = NoPacket THEN pipe_in
                         ELSE pipe_in \o encode_packet(got.item)
           /\ peer_sent' = IF got.item = NoPacket THEN peer_sent
                           ELSE Append(peer_sent, got.item)
    /\ FarFrame

NextEcho ==
    \/ Caller_start
    \/ CallerSendEcho
    \/ WriterWake \/ WriterGet \/ WriterWrite
    \/ FarRead \/ FarDispatch \/ FarIdleRun \/ FarWriterWake \/ FarWriterWrite
    \/ ReaderRead \/ ReaderDispatch
    \/ IdleRun

\* the callee is given the allow-list {echo} and the echo object
InitEcho ==
    /\ FrameIdle
    /\ XIdle
    /\ role = "caller"
    /\ method_whitelist = Whitelist({"echo"})
    /\ wrapped_object = TheWrappedObject
    /\ send_queue = << >>
    /\ protocol = NoProtocol
    /\ engine = NewEngine
    /\ wire_out = << >>
    /\ pipe_in = << >>
    /\ peer_eof = FALSE
    /\ peer_sent = << >>
    /\ dispatched = << >>
    /\ idle = << >>
    /\ timers = {}
    /\ ran = << >>
    /\ mainloop = "created"
    /\ sig_handler = "handle_signal"
    /\ process = NoProcess
    /\ child = "none"
    /\ signal_callbacks = Caller_init_callbacks
    /\ prod = [p \in Producers |-> [todo |-> << >>, pc |-> "put"]]
    /\ peer_left = 0
    /\ enq_log = << >>
    /\ hist = NoHist

\* both engines' loops are threads, both main loops run what is scheduled:
\* the system does not halt while one of them has something to do
EchoLoops ==
    \/ WriterWake \/ WriterGet \/ WriterWrite
    \/ FarRead \/ FarDispatch \/ FarIdleRun \/ FarWriterWake \/ FarWriterWrite
    \/ ReaderRead \/ ReaderDispatch
    \/ IdleRun

EchoFairness == WF_vars(EchoLoops)

SpecEcho == InitEcho /\ [][NextEcho]_vars /\ EchoFairness

(***************************************************************************)
(* Specifications                                                          *)
(***************************************************************************)
Start == Caller_start \/ Callee_start
Stops == CallerStop \/ Signal \/ TimerFire
LoopsEnd == WriterStop \/ ReaderStop

\* the write side: producers, the write loop, and whatever closes the engine
NextWrite ==
    \/ Start
    \/ \E p \in Producers : SendPut(p) \/ SendWake(p)
    \/ WriterWake \/ WriterGet \/ WriterWrite
    \/ Stops
    \/ LoopsEnd

\* the read side: the peer, the read loop, the main loop
NextRead ==
    \/ Start
    \/ PeerWrite \/ PeerClose
    \/ ReaderRead \/ ReaderDispatch \/ ReaderGibberish \/ ReaderEOF
    \/ IdleRun
    \/ Stops
    \/ LoopsEnd

\* the frame codec alone, the bridge at rest
FrameSpecInit ==
    /\ FrameInit
    /\ XIdle
    /\ BridgeInit(NoPlan, 0)
    /\ role = "caller"

SpecFrame == FrameSpecInit /\ [][FrameNext]_vars

\* the close convenience alone, the bridge at rest
CloseSpecInit ==
    /\ CloseInit
    /\ XIdle
    /\ BridgeInit(NoPlan, 0)
    /\ role = "caller"

SpecClose == CloseSpecInit /\ [][CloseNext]_vars

\* both sides at once
Next == NextWrite \/ NextRead
Spec == Init /\ [][Next]_vars

SpecWrite == InitWrite /\ [][NextWrite]_vars

\* the callee and what stops it: packets, the end of the input, signals;
\* the main loop keeps running what is scheduled on it
NextStop ==
    \/ Callee_start
    \/ PeerWrite \/ PeerClose
    \/ ReaderRead \/ ReaderDispatch \/ ReaderGibberish \/ ReaderEOF
    \/ IdleRun
    \/ Signal \/ TimerFire
    \/ LoopsEnd

InitStop ==
    BridgeInit(NoPlan, MaxPeerPackets) /\ FrameIdle /\ XIdle /\ role = "callee"

MainLoop == IdleRun \/ TimerFire

SpecStop == InitStop /\ [][NextStop]_vars /\ WF_vars(MainLoop)

\* start()'s finally clause, once run() has returned or raised: cleanup(),
\* and the engine closed if it is still held
Callee_start_finally(h) ==
    LET p == protocol
        e1 == IF p = TheProtocol THEN Engine_close(engine) ELSE engine
    IN  /\ protocol' = NoProtocol
        /\ engine' = e1
        /\ mainloop' = "ended"
        /\ hist' = NoteClose([h EXCEPT !.cleanup = @ + 1,
                                       !.close_calls = @ + (IF p = TheProtocol THEN 1 ELSE 0)],
                             e1)

\* the main loop ends: after quit(), or with KeyboardInterrupt or
\* RuntimeError while it runs
RunEnds ==
    /\ role = "callee"
    /\ mainloop \in {"running", "quit"}
    /\ Callee_start_finally(hist)
    /\ UNCHANGED <<fvars, xvars>>
    /\ UNCHANGED <<role, method_whitelist, wrapped_object, send_queue, wire_out, pipe_in,
                   peer_eof, peer_sent, dispatched, idle, timers, ran, sig_handler,
                   process, child, signal_callbacks, prod, peer_left, enq_log>>

NextFinal == NextStop \/ RunEnds

SpecFinal == InitStop /\ [][NextFinal]_vars

\* producers and the write loop alone, every thread scheduled again and
\* again: a producer that has put its packet goes on to source_has_more(),
\* the write loop does not halt while it has something to do
NextWake ==
    \/ Start
    \/ \E p \in Producers : SendPut(p) \/ SendWake(p)
    \/ WriterWake \/ WriterGet \/ WriterWrite
    \/ CallerStop

WakeThreads ==
    \/ \E p \in Producers : SendPut(p) \/ SendWake(p)
    \/ WriterWake \/ WriterGet \/ WriterWrite

SpecWake == InitWrite /\ [][NextWake]_vars /\ WF_vars(WakeThreads)
SpecRead == InitRead /\ [][NextRead]_vars

\* a callee, constructed with or without an allow-list and a wrapped object,
\* receiving commands
CalleeWhitelists ==
    {NoWhitelist, Whitelist(Callee_method_whitelist),
     Whitelist({"do_it", "bogus", "signal", "stop", "exit", "connection_lost",
                "gibberish"})}

InitCallee ==
    /\ FrameIdle
    /\ XIdle
    /\ role = "callee"
    /\ method_whitelist \in CalleeWhitelists
    /\ wrapped_object \in {NoWrappedObject, TheWrappedObject}
    /\ send_queue = << >>
    /\ protocol = NoProtocol
    /\ engine = NewEngine
    /\ wire_out = << >>
    /\ pipe_in = << >>
    /\ peer_eof = FALSE
    /\ peer_sent = << >>
    /\ dispatched = << >>
    /\ idle = << >>
    /\ timers = {}
    /\ ran = << >>
    /\ mainloop = "created"
    /\ sig_handler = "handle_signal"
    /\ process = NoProcess
    /\ child = "none"
    /\ signal_callbacks = Caller_init_callbacks
    /\ prod = [p \in Producers |-> [todo |-> << >>, pc |-> "put"]]
    /\ peer_left = MaxCommands
    /\ enq_log = << >>
    /\ hist = NoHist

\* a caller with its subscriptions, receiving the callee's packets
NextCaller ==
    \/ Caller_start
    \/ PeerWrite \/ PeerClose
    \/ ReaderRead \/ ReaderDispatch \/ ReaderDispatchFailing
    \/ ReaderGibberish \/ ReaderEOF
    \/ IdleRun
    \/ CallerStop
    \/ LoopsEnd

InitCaller == InitRead /\ role = "caller"

\* a caller whose application goes on subscribing, while the peer writes
\* once
NextConnect ==
    \/ Caller_start
    \/ CallerConnect
    \/ PeerWrite \/ PeerClose
    \/ ReaderRead \/ ReaderDispatch \/ ReaderGibberish \/ ReaderEOF
    \/ IdleRun
    \/ CallerStop
    \/ LoopsEnd

InitConnect == BridgeInit(NoPlan, 1) /\ FrameIdle /\ XIdle /\ role = "caller"

SpecConnect == InitConnect /\ [][NextConnect]_vars

SpecCaller == InitCaller /\ [][NextCaller]_vars

\* a caller and its child: the application sends and stops, the child exits
NextProcess ==
    \/ Caller_start
    \/ CallerSend
    \/ WriterWake \/ WriterGet \/ WriterWrite
    \/ ChildExit \/ ChildReaped
    \/ PeerWrite
    \/ ReaderRead \/ ReaderDispatch \/ ReaderGibberish \/ ReaderEOF
    \/ IdleRun
    \/ CallerStop
    \/ LoopsEnd

InitProcess == BridgeInit(NoPlan, 1) /\ FrameIdle /\ XIdle /\ role = "caller"

SpecProcess == InitProcess /\ [][NextProcess]_vars

\* the caller, its child and the exit watcher alone; the child reaper runs
\* in the main loop, so that an exit it watches for does not stay unnoticed
NextExit ==
    \/ Caller_start
    \/ ChildExit \/ ChildReaped
    \/ PeerWrite
    \/ ReaderRead \/ ReaderDispatch \/ ReaderGibberish \/ ReaderEOF
    \/ IdleRun
    \/ CallerStop
    \/ LoopsEnd

SpecExit == InitProcess /\ [][NextExit]_vars /\ WF_vars(ChildReaped)

\* a callee whose wrapped object emits exported events
NextExport ==
    \/ Callee_start
    \/ Emit
    \/ WriterWake \/ WriterGet \/ WriterWrite
    \/ PeerClose
    \/ ReaderEOF
    \/ IdleRun
    \/ WriterStop

InitExport == BridgeInit(NoPlan, 0) /\ FrameIdle /\ XIdle /\ role = "callee"

SpecExport == InitExport /\ [][NextExport]_vars

\* raw_write puts its bytes on the engine's write queue as they are: the
\* write loop writes them between two packets, never through encode_packet
RawWrite ==
    /\ engine.state \in EngineOpen
    /\ engine.wbuf = << >>
    /\ raw_writes > 0
    /\ raw_writes' = raw_writes - 1
    /\ wire_out' = wire_out \o FaultJunk
    /\ UNCHANGED <<fvars, far, chunker, latevars, fault_rate, counter, fault_log>>
    /\ UNCHANGED <<role, method_whitelist, wrapped_object, send_queue, protocol, engine,
                   pipe_in, peer_eof, peer_sent, dispatched, idle, timers, ran,
                   mainloop, sig_handler, process, child, signal_callbacks, prod,
                   peer_left, enq_log, hist>>

\* the callee's owner calls send(), as export does for an emission
CalleeSend ==
    /\ role = "callee"
    /\ Len(enq_log) < MaxSends
    /\ Callee_send(PacketA1)
    /\ INJECT_FAULT(protocol, "send")
    /\ UNCHANGED <<fvars, far, chunker, latevars>>
    /\ UNCHANGED <<role, method_whitelist, wrapped_object, protocol, wire_out, pipe_in,
                   peer_eof, peer_sent, dispatched, idle, timers, ran, mainloop,
                   sig_handler, process, child, signal_callbacks, prod, peer_left,
                   hist>>

\* either role with XPRA_WRAPPER_FAULT_INJECTION_RATE set or unset: sends
\* and received packets in any order
NextFault ==
    \/ Start
    \/ CallerSend \/ CalleeSend
    \/ WriterWake \/ WriterGet \/ WriterWrite \/ RawWrite
    \/ PeerWrite
    \/ ReaderRead \/ ReaderDispatch \/ ReaderGibberish
    \/ IdleRun

InitFault ==
    /\ BridgeInit(NoPlan, 1)
    /\ FrameIdle
    /\ fault_rate \in 0..MaxFaultRate
    /\ counter = 0
    /\ raw_writes = 0
    /\ fault_log = << >>
    /\ far = NewFar
    /\ LateIdle
    /\ chunker = NewChunker

SpecFault == InitFault /\ [][NextFault]_vars

NextCallee ==
    \/ Callee_start
    \/ PeerCommand \/ PeerClose
    \/ ReaderRead \/ ReaderDispatch \/ ReaderEOF
    \/ IdleRun
    \/ LoopsEnd

SpecCallee == InitCallee /\ [][NextCallee]_vars

(***************************************************************************)
(* Claims about the engine and the bridge                                  *)
(***************************************************************************)
IsPrefix(a, b) == Len(a) <= Len(b) /\ SubSeq(b, 1, Len(a)) = a

RECURSIVE FlatEncode(_)
\* the bytes of the packets, one after the other
FlatEncode(packets) ==
    IF packets = << >> THEN << >>
    ELSE encode_packet(Head(packets)) \o FlatEncode(Tail(packets))

RECURSIVE DecodeAll(_)
\* the whole packets a byte stream starts with
DecodeAll(buf) ==
    LET d == decode_packet(buf)
    IN  IF d.status = "ok"
        THEN <<d.packet>> \o DecodeAll(Slice(buf, d.length, Len(buf)))
        ELSE << >>

RECURSIVE Select(_, _)
\* the packets or callbacks of a sequence named in the set names, in order
Select(seq, names) ==
    IF seq = << >> THEN << >>
    ELSE IF Head(seq)[1] \in names
         THEN <<Head(seq)>> \o Select(Tail(seq), names)
         ELSE Select(Tail(seq), names)

RECURSIVE BeforeJunk(_)
\* what the peer wrote before its first junk
BeforeJunk(sent) ==
    IF sent = << >> \/ Head(sent) = JunkMark THEN << >>
    ELSE <<Head(sent)>> \o BeforeJunk(Tail(sent))

\* every callback the owner scheduled, as <<fn, args...>>, in idle_add order
Scheduled == [i \in 1..(Len(ran) + Len(idle)) |->
                LET e == IF i <= Len(ran) THEN ran[i] ELSE idle[i - Len(ran)]
                IN  <<e.fn>> \o e.args]

Count(seq, x) == Cardinality({i \in 1..Len(seq) : seq[i] = x})

Started == engine.state # "CREATED"

\* C1: the bytes on the wire are the packets' bytes in the order the packets
\* were enqueued, each packet whole before the next one starts (the last one
\* possibly still being written), whatever send() calls and write-loop steps
\* came before.
C1_WriteOrder == IsPrefix(wire_out, FlatEncode(enq_log))

\* a caller wrote three packets of two producers, B's between A's
C1_Witness ==
    /\ role = "caller"
    /\ enq_log = <<PacketA1, PacketB1, PacketA2>>
    /\ wire_out = FlatEncode(enq_log)

\* C2: every packet the read path decodes reaches process_packet exactly
\* once and in wire order: what was dispatched is a prefix of what arrived,
\* all of it once the open connection is drained, and the callbacks that
\* process_packet schedules for the "msg" packets carry the arrived payloads
\* once each, in the same order.
C2_DispatchOrder ==
    LET arrived == BeforeJunk(peer_sent)
        data == Select(dispatched, {"msg", "other", "stop", "signal"})
        handler == IF role = "caller" THEN "on_msg" ELSE "msg"
        extra == IF role = "caller" THEN <<TheCaller, "u1">> ELSE << >>
        called == Select(Scheduled, {handler})
        expected == Select(data, {"msg"})
    IN  /\ IsPrefix(data, arrived)
        /\ (engine.state \in EngineOpen /\ pipe_in = << >> /\ engine.rbuf = << >>)
                => dispatched = peer_sent
        /\ Len(called) = Len(expected)
        /\ \A i \in 1..Len(called) :
                called[i] = <<handler>> \o extra \o Tail(expected[i])

\* a caller was handed two packets that arrived back to back
C2_Witness ==
    /\ role = "caller"
    /\ dispatched = << <<"msg", "a2">>, <<"msg", "a1">> >>
    /\ Len(ran) = 4

\* C3: with one producer sending A1 then A2 and another sending B1, A2 never
\* reaches the wire before A1, and no packet reaches it twice, in any
\* interleaving of the producers and the write loop.
C3_ProducerOrder ==
    LET written == DecodeAll(wire_out)
    IN  /\ \A i \in 1..Len(written) :
              written[i] = PacketA2 => \E j \in 1..(i - 1) : written[j] = PacketA1
        /\ \A pk \in {PacketA1, PacketA2, PacketB1} : Count(written, pk) <= 1

\* a callee wrote B1 between A1 and A2
C3_Witness ==
    /\ role = "callee"
    /\ DecodeAll(wire_out) = <<PacketA1, PacketB1, PacketA2>>

\* the owner has stopped: it holds no engine, and the caller no process, the
\* callee no running main loop
OwnerStopped ==
    /\ protocol = NoProtocol
    /\ IF role = "caller" THEN process = NoProcess ELSE mainloop = "quit"

\* the callback by which the owner reacts to a reserved notification
StopCallback(notice) ==
    IF role = "callee" THEN <<"stop">>
    ELSE IF notice[1] = GIBBERISH THEN <<"gibberish", TheCaller>> \o Tail(notice)
    ELSE <<"connection_lost", TheCaller>> \o Tail(notice)

HasRun(callback) ==
    \E i \in 1..Len(ran) : <<ran[i].fn>> \o ran[i].args = callback

\* what follows once the engine has told the owner of a fatal read error:
\* it told it once, dispatches nothing after it, has closed locally and
\* reads no more; the owner has scheduled its stop, and has stopped once
\* that callback has run
NoticeHandled(notice) ==
    /\ Count(dispatched, notice) = 1
    /\ dispatched[Len(dispatched)] = notice
    /\ engine.state \in EngineClosing
    /\ engine.conn_closed = 1
    /\ engine.reader = "stopped"
    /\ Count(Scheduled, StopCallback(notice)) >= 1
    /\ role = "caller" => Count(Scheduled, StopCallback(notice)) = 1
    /\ HasRun(StopCallback(notice)) => OwnerStopped

\* the read loop is through with all the peer wrote, and nothing else
\* closed the engine
ReadToTheEnd ==
    /\ Started
    /\ pipe_in = << >>
    /\ engine.rbuf = << >>
    /\ hist.close_calls = 0

\* C4: close() is idempotent: however often it is called, by the owner's
\* stop() or by the engine itself, and however the calls interleave with
\* the two loops, the connection is released exactly once -- never twice,
\* and once as soon as the engine is closing or the owner has dropped it --
\* and nothing is written to the wire after the first close(): the packets
\* still queued stay unsent.
C4_CloseOnce ==
    /\ engine.conn_closed <= 1
    /\ (engine.state \in EngineClosing) <=> (engine.conn_closed = 1)
    /\ (Started /\ protocol = NoProtocol) => engine.conn_closed = 1
    /\ (engine.state \in EngineClosing) <=> (hist.wire_at_close # -1)
    /\ (hist.wire_at_close # -1) => Len(wire_out) = hist.wire_at_close

\* the engine closed itself on gibberish with a packet half written, then
\* the caller's stop() closed it again, with a packet still queued
C4_Witness ==
    /\ role = "caller"
    /\ Count(dispatched, GibberishNotice) = 1
    /\ hist.close_calls = 1
    /\ engine.state = "CLOSED"
    /\ send_queue # << >>
    /\ Len(wire_out) = HEADER_SIZE

\* C5: the engine's state moves only CREATED -> STARTED (on start()),
\* STARTED -> ACTIVE (on the first packet written or read), from any state
\* but CLOSED to CLOSING (on close() or a fatal read error) and CLOSING ->
\* CLOSED (once both loops have stopped); CLOSED is final, and nothing is
\* written or dispatched in it.
C5_StateMachine ==
    [][ /\ (engine.state # engine'.state) =>
            \/ /\ engine.state = "CREATED" /\ engine'.state = "STARTED"
               /\ protocol = NoProtocol /\ protocol' = TheProtocol
            \/ /\ engine.state = "STARTED" /\ engine'.state = "ACTIVE"
               /\ (wire_out' # wire_out \/ dispatched' # dispatched)
            \/ /\ engine.state \notin EngineClosing /\ engine'.state = "CLOSING"
               /\ \/ hist'.close_calls = hist.close_calls + 1
                  \/ dispatched' \in {Append(dispatched, GibberishNotice),
                                     Append(dispatched, ConnectionLostNotice)}
            \/ /\ engine.state = "CLOSING" /\ engine'.state = "CLOSED"
               /\ engine'.writer = "stopped" /\ engine'.reader = "stopped"
        /\ (engine.state = "CLOSED") =>
            /\ engine'.state = "CLOSED"
            /\ wire_out' = wire_out
            /\ dispatched' = dispatched ]_vars

\* an engine that wrote a packet and dispatched one is CLOSED, a packet
\* still unsent in the queue
C5_Witness ==
    /\ engine.state = "CLOSED"
    /\ DecodeAll(wire_out) = <<PacketA1>>
    /\ dispatched # << >>
    /\ send_queue = <<PacketA2>>

C7_ConnectionLost ==
    /\ Count(dispatched, ConnectionLostNotice) <= 1
    /\ Count(dispatched, ConnectionLostNotice) = 1 =>
            /\ NoticeHandled(ConnectionLostNotice)
            /\ peer_eof
    /\ (ReadToTheEnd /\ peer_eof /\ engine.state \in EngineClosing) =>
            Count(dispatched, ConnectionLostNotice) + Count(dispatched, GibberishNotice) = 1

\* a caller whose child closed the pipe has stopped on the notification
C7_Witness ==
    /\ role = "caller"
    /\ dispatched = << <<"msg", "a1">>, ConnectionLostNotice >>
    /\ HasRun(<<"connection_lost", TheCaller>>)
    /\ OwnerStopped
    /\ child = "terminated"

(***************************************************************************)
(* Claims about the callee's command dispatch (checked under SpecCallee)   *)
(***************************************************************************)
RECURSIVE MethodCallsOf(_)
\* the calls of methods of the wrapped object among scheduled callbacks, as
\* <<method, args...>>, in order
MethodCallsOf(entries) ==
    IF entries = << >> THEN << >>
    ELSE IF Head(entries).wo
         THEN << <<Head(entries).fn>> \o Head(entries).args >>
                  \o MethodCallsOf(Tail(entries))
         ELSE MethodCallsOf(Tail(entries))

\* every call of a method of the wrapped object the callee has scheduled
MethodCalls == MethodCallsOf(ran \o idle)

\* the tags the callee answers with built-in control logic
ControlTags == {"stop", "exit", CONNECTION_LOST, GIBBERISH}

\* the allow-list lets the translated tag through
Allowed(attr) == ~method_whitelist.configured \/ attr \in method_whitelist.names

\* the packet is a command for the wrapped object, and the object can take it
Forwardable(packet) ==
    /\ packet[1] \notin ControlTags
    /\ Allowed(Underscored(packet[1]))
    /\ wrapped_object = TheWrappedObject
    /\ Underscored(packet[1]) \in WrappedMethods

RECURSIVE ExpectedCalls(_)
\* the method calls a sequence of received packets asks for
ExpectedCalls(packets) ==
    IF packets = << >> THEN << >>
    ELSE IF Forwardable(Head(packets))
         THEN << <<Underscored(Head(packets)[1])>> \o Tail(Head(packets)) >>
                  \o ExpectedCalls(Tail(packets))
         ELSE ExpectedCalls(Tail(packets))

\* C11: with an allow-list configured, whatever packets were received, every
\* method of the wrapped object that is scheduled is named in the allow-list,
\* and is the translated tag of a packet that was received.
C11_AllowList ==
    method_whitelist.configured =>
        \A i \in 1..Len(MethodCalls) :
            /\ MethodCalls[i][1] \in method_whitelist.names
            /\ \E j \in 1..Len(dispatched) :
                    Underscored(dispatched[j][1]) = MethodCalls[i][1]

\* a callee with an allow-list got a command outside it, which the wrapped
\* object has a method for, and then one inside it
C11_Witness ==
    /\ method_whitelist = Whitelist(Callee_method_whitelist)
    /\ wrapped_object = TheWrappedObject
    /\ dispatched = << <<"other", "hi">>, <<"msg", "a1">> >>
    /\ MethodCalls = << <<"msg", "a1">> >>

\* the packet is one the callee drops: its tag is outside the allow-list, or
\* names no method, or there is no wrapped object
Droppable(packet) ==
    /\ packet[1] \notin ControlTags
    /\ \/ ~Allowed(Underscored(packet[1]))
       \/ wrapped_object = NoWrappedObject
       \/ Underscored(packet[1]) \notin WrappedMethods

\* C12: a packet whose tag is outside the allow-list, or names no method of
\* the wrapped object, or arrives when there is no wrapped object, is dropped
\* with no other effect: the step that dispatches it schedules and runs
\* nothing, enqueues no packet, leaves the engine open with the owner and the
\* main loop as it was; and the packets after it are still processed.
C12_Dropped ==
    [][ (Len(dispatched') = Len(dispatched) + 1
            /\ Droppable(dispatched'[Len(dispatched')])) =>
            /\ idle' = idle
            /\ ran' = ran
            /\ timers' = timers
            /\ send_queue' = send_queue
            /\ enq_log' = enq_log
            /\ wire_out' = wire_out
            /\ protocol' = protocol
            /\ engine'.state \in EngineOpen
            /\ engine'.reader = "read"
            /\ engine'.conn_closed = 0
            /\ mainloop' = mainloop
            /\ hist'.sys_exit = hist.sys_exit ]_vars
    /\ [](MethodCalls = ExpectedCalls(dispatched))

\* a callee dropped a command that names no method of its wrapped object,
\* and then ran the next command
C12_Witness ==
    /\ ~method_whitelist.configured
    /\ wrapped_object = TheWrappedObject
    /\ dispatched = << <<"bogus">>, <<"do-it", "hi">> >>
    /\ ran = <<MethodEntry("do_it", <<"hi">>)>>
    /\ mainloop = "running"
    /\ engine.state = "ACTIVE"

\* C13: a packet tagged stop, exit, connection-lost or gibberish never has a
\* method of the wrapped object scheduled, not even when the object has a
\* method of that name and the allow-list is absent or names it: the calls
\* scheduled are those of the other packets.
C13_ControlTags ==
    /\ \A i \in 1..Len(MethodCalls) :
            MethodCalls[i][1] \notin {Underscored(t) : t \in ControlTags}
    /\ Len(MethodCalls) <=
            Cardinality({j \in 1..Len(dispatched) : dispatched[j][1] \notin ControlTags})

\* a callee without allow-list, whose wrapped object has methods "exit" and
\* "stop", got an exit and a stop packet, and stopped without calling either
C13_Witness ==
    /\ ~method_whitelist.configured
    /\ wrapped_object = TheWrappedObject
    /\ {"exit", "stop"} \subseteq WrappedMethods
    /\ dispatched = << <<"exit">>, <<"stop">> >>
    /\ hist.sys_exit = 1
    /\ ran = <<IdleEntry("stop", << >>)>>
    /\ mainloop = "quit"

RECURSIVE CallsNamed(_, _)
\* the calls or packets of a sequence whose first element is name
CallsNamed(seq, name) ==
    IF seq = << >> THEN << >>
    ELSE IF Head(seq)[1] = name
         THEN <<Head(seq)>> \o CallsNamed(Tail(seq), name)
         ELSE CallsNamed(Tail(seq), name)

\* C14, as stated: a packet tagged signal is never forwarded to the wrapped
\* object.
C14_SignalReserved ==
    CallsNamed(MethodCalls, "signal") = << >>

\* C14, amended: the callee treats the tag signal like any other command. The
\* wrapped object's signal method is scheduled, once for each signal packet
\* received and with its arguments, when the allow-list is absent or names
\* it and there is a wrapped object; otherwise the packet is dropped.
C14_SignalAsCommand ==
    CallsNamed(MethodCalls, "signal") =
        IF Allowed("signal") /\ wrapped_object = TheWrappedObject
                             /\ "signal" \in WrappedMethods
        THEN CallsNamed(dispatched, "signal")
        ELSE << >>

\* a callee without allow-list ran its wrapped object's signal method
C14_Witness ==
    /\ ~method_whitelist.configured
    /\ dispatched = << <<"signal", "SIGTERM">> >>
    /\ ran = <<MethodEntry("signal", <<"SIGTERM">>)>>

\* C15: for each packet received whose translated tag passes the allow-list
\* and names a method of the wrapped object, the callee schedules that
\* method once, with the packet's elements after the tag as arguments, in
\* arrival order; the step that dispatches a packet runs no callback: a
\* callback runs only later, taken from the head of the main loop's queue.
C15_Scheduled ==
    /\ [](MethodCalls = ExpectedCalls(dispatched))
    /\ [][ /\ (dispatched' # dispatched) => ran' = ran
           /\ (ran' # ran) => (idle # << >> /\ ran' = Append(ran, Head(idle))
                                            /\ idle' = Tail(idle)) ]_vars

\* two commands were dispatched before the main loop ran either; the one with
\* a hyphen in its tag has run since
C15_Witness ==
    /\ dispatched = << <<"do-it", "hi">>, <<"msg", "a1">> >>
    /\ ran = <<MethodEntry("do_it", <<"hi">>)>>
    /\ idle = <<MethodEntry("msg", <<"a1">>)>>

(***************************************************************************)
(* Claims about the callee's shutdown (checked under Spec)                 *)
(***************************************************************************)
\* this step is the main loop calling the handler of an OS signal
SignalHandled == hist'.signals = hist.signals + 1
\* this step is an execution of SubprocessCallee.stop()
StopRuns == hist'.stop_runs = hist.stop_runs + 1

\* C16: two-phase shutdown. The handler of the first termination signal
\* neither halts the main loop nor closes the engine nor runs cleanup()
\* itself: it enqueues ("signal", <name>), wakes the write loop of an open
\* engine, and leaves two timeouts pending, cleanup() and stop(). The
\* stop() timeout does not
\* expire before the cleanup() one, and the main loop is halted only by an
\* execution of stop().
C16_TwoPhase ==
    /\ [][ /\ (SignalHandled /\ sig_handler = "handle_signal") =>
                /\ mainloop' = "running"
                /\ protocol' = protocol
                /\ engine'.state = engine.state
                /\ engine'.conn_closed = engine.conn_closed
                /\ hist'.stop_runs = hist.stop_runs
                /\ hist'.cleanup = hist.cleanup
                /\ \E sig \in Signals :
                        /\ send_queue' = Append(send_queue, <<"signal", sig>>)
                        /\ enq_log' = Append(enq_log, <<"signal", sig>>)
                /\ (protocol = TheProtocol /\ engine.state \in EngineOpen) =>
                        engine'.has_more
                /\ timers' = {"cleanup", "stop"}
                /\ sig_handler' = "signal_stop"
           /\ ("stop" \in timers /\ "stop" \notin timers') => "cleanup" \notin timers
           /\ (mainloop = "running" /\ mainloop' # "running") => StopRuns ]_vars
    /\ [](role = "callee" /\ mainloop = "quit" => hist.stop_runs >= 1)

\* after one signal the callee has run cleanup() from its timeout and written
\* the signal packet, and is still running, the stop() timeout pending
C16_Witness ==
    /\ role = "callee"
    /\ hist.signals = 1
    /\ hist.cleanup = 1
    /\ timers = {"stop"}
    /\ mainloop = "running"
    /\ protocol = TheProtocol
    /\ engine.state \in EngineOpen
    /\ \E sig \in Signals : <<"signal", sig>> \in {DecodeAll(wire_out)[i] : i \in 1..Len(DecodeAll(wire_out))}

\* C17: a second termination signal, received after the first and before the
\* deferred stop() has run, runs stop() at once: the engine is closed and
\* the main loop halted in the handler, the grace timeout still pending.
C17_SecondSignal ==
    [][ (SignalHandled /\ sig_handler = "signal_stop") =>
            /\ mainloop = "running"
            /\ hist.stop_runs = 0
            /\ StopRuns
            /\ mainloop' = "quit"
            /\ protocol' = NoProtocol
            /\ engine'.state \in EngineClosing
            /\ engine'.conn_closed = 1
            /\ timers' = timers
            /\ send_queue' = send_queue ]_vars

\* the second signal stopped a callee whose grace timeout had not expired
\* and whose signal packet was still queued
C17_Witness ==
    /\ role = "callee"
    /\ hist.signals = 2
    /\ hist.stop_runs = 1
    /\ "stop" \in timers
    /\ mainloop = "quit"
    /\ engine.state \in EngineClosing
    /\ \E sig \in Signals : <<"signal", sig>> \in {send_queue[i] : i \in 1..Len(send_queue)}

\* C18: every execution of the callee's stop(), whatever called it, runs
\* cleanup() once, drops and closes the engine if the callee still holds
\* one, and halts the main loop.
C18_StopAlways ==
    [][ (role = "callee" /\ StopRuns) =>
            /\ hist'.cleanup = hist.cleanup + 1
            /\ protocol' = NoProtocol
            /\ (protocol = TheProtocol) =>
                    /\ hist'.close_calls = hist.close_calls + 1
                    /\ engine'.state \in EngineClosing
                    /\ engine'.conn_closed = 1
            /\ (protocol = NoProtocol) => engine' = engine
            /\ mainloop' = "quit" ]_vars

\* a callee stopped by a stop packet, after it had written a packet
C18_Witness ==
    /\ role = "callee"
    /\ hist.stop_runs = 1
    /\ hist.signals = 0
    /\ hist.cleanup = 1
    /\ HasRun(<<"stop">>)
    /\ mainloop = "quit"
    /\ protocol = NoProtocol
    /\ engine.conn_closed = 1
    /\ wire_out # << >>

(***************************************************************************)
(* Claims about the caller's subscriptions (checked under SpecCaller)      *)
(***************************************************************************)
RECURSIVE RegistrationsOf(_, _)
\* the connect() calls made for one tag, in the order they were made
RegistrationsOf(calls, tag) ==
    IF calls = << >> THEN << >>
    ELSE IF Head(calls)[1] = tag
         THEN <<Head(calls)>> \o RegistrationsOf(Tail(calls), tag)
         ELSE RegistrationsOf(Tail(calls), tag)

RECURSIVE CallbacksFor(_, _, _, _)
\* what the j-th packet received should have scheduled, from the k-th
\* registration of its tag on: cb(caller, *fixed, *packet[1:]), but for the
\* registrations whose scheduling failed
CallbacksFor(regs, packet, j, k) ==
    IF k > Len(regs) THEN << >>
    ELSE (IF <<j, k>> \in hist.failures THEN << >>
          ELSE << <<regs[k][2], TheCaller>> \o regs[k][3] \o Tail(packet) >>)
         \o CallbacksFor(regs, packet, j, k + 1)

RECURSIVE ExpectedCallbacks(_)
\* what the first j packets received should have scheduled
ExpectedCallbacks(j) ==
    IF j = 0 THEN << >>
    ELSE ExpectedCallbacks(j - 1)
            \o CallbacksFor(RegistrationsOf(ConnectCalls, dispatched[j][1]),
                            dispatched[j], j, 1)

\* C20: for every packet the caller receives, each connect() registration
\* of its tag is scheduled once, in registration order, as
\* cb(caller, *fixed, *packet elements after the tag); a registration whose
\* scheduling fails is skipped and the later ones are still scheduled; the
\* step that dispatches a packet runs no callback.
C20_Subscriptions ==
    /\ [](role = "caller" => Scheduled = ExpectedCallbacks(Len(dispatched)))
    /\ [][ /\ (dispatched' # dispatched) => ran' = ran
           /\ (ran' # ran) => (idle # << >> /\ ran' = Append(ran, Head(idle))
                                            /\ idle' = Tail(idle)) ]_vars

\* a packet with two subscribers: scheduling the first failed, the second
\* has run; a signal packet's subscriber is scheduled behind it
C20_Witness ==
    /\ role = "caller"
    /\ dispatched = << <<"msg", "a1">>, <<"signal", "SIGTERM">> >>
    /\ hist.failures = {<<1, 1>>}
    /\ ran = <<IdleEntry("on_msg_too", <<TheCaller, "a1">>)>>
    /\ idle = <<IdleEntry("on_signal", <<TheCaller, "SIGTERM">>)>>

(***************************************************************************)
(* The signal notification, end to end (checked under Spec)                *)
(***************************************************************************)
\* the signal notifications among the packets
SignalPackets(packets) == Select(packets, {"signal"})

\* the callee's packets that are wholly on the wire
Written == DecodeAll(wire_out)

\* the callee stopped of its own accord: nothing came from the caller, and
\* the caller did not close
QuietPeer == peer_sent = << >> /\ ~peer_eof /\ dispatched = << >>

\* C19 as stated: once a signal has been handled by a callee whose
\* connection was open, and the shutdown it starts has closed the engine,
\* the signal notification is on the wire for the caller.
C19_SignalNotLost ==
    (role = "callee" /\ hist.signals >= 1 /\ QuietPeer
        /\ engine.state \in EngineClosing)
    => SignalPackets(Written) # << >>

\* C19, amended: the first signal enqueues exactly one signal packet naming
\* it, behind what was queued before; as long as the engine is open the
\* packet is on the wire, being written or queued, and once stop() has run
\* no further packet reaches the wire, so that the notification is delivered
\* if and only if the write loop wrote it before stop() ran.  The caller
\* schedules its signal subscribers with the signal's name for every signal
\* packet it receives, and before its connection-lost callback; when it
\* observes connection-lost it has dispatched every packet the callee wrote.
C19_SignalRelayed ==
    /\ [](role = "callee" =>
            /\ Len(SignalPackets(enq_log)) = (IF hist.signals >= 1 THEN 1 ELSE 0)
            /\ \A i \in 1..Len(enq_log) :
                    enq_log[i][1] = "signal" => enq_log[i][2] \in Signals
            /\ (engine.state \in EngineOpen) =>
                    LET k == Len(Written) + (IF engine.wbuf # << >> THEN 1 ELSE 0)
                    IN  send_queue = SubSeq(enq_log, k + 1, Len(enq_log))
            /\ IsPrefix(Written, enq_log))
    /\ [][(role = "callee" /\ hist.stop_runs >= 1) => wire_out' = wire_out]_vars
    /\ [](role = "caller" =>
            LET got == SignalPackets(dispatched)
                fired == Select(Scheduled, {"on_signal", "connection_lost"})
                lost == Count(dispatched, ConnectionLostNotice)
            IN  /\ Len(fired) = Len(got) + lost
                /\ \A i \in 1..Len(got) :
                        fired[i] = <<"on_signal", TheCaller>> \o Tail(got[i])
                /\ lost = 1 =>
                    /\ fired[Len(fired)] = <<"connection_lost", TheCaller>>
                    /\ SignalPackets(BeforeJunk(peer_sent)) = got)

\* a callee got SIGTERM with its connection open; the write loop wrote the
\* notification, then the grace delay ended and stop() closed the engine
C19_Witness ==
    /\ role = "callee"
    /\ hist.signals = 1
    /\ QuietPeer
    /\ hist.stop_runs = 1
    /\ engine.state = "CLOSED"
    /\ SignalPackets(Written) = << <<"signal", "SIGTERM">> >>

(***************************************************************************)
(* Claims about the caller's built-in subscriptions (under SpecConnect)    *)
(***************************************************************************)
\* the subscription __init__ makes for a reserved notification
BuiltIn(tag) == IF tag = GIBBERISH THEN <<"gibberish", << >> >>
                ELSE <<"connection_lost", << >> >>

\* C21: the connection-lost and gibberish tags always have their built-in
\* subscription, first in the list; connect() only ever appends to a tag's
\* list, so no registration is removed or replaced; and every
\* connection-lost or gibberish notification dispatched has the built-in
\* callback scheduled, which stops the caller when it runs.
C21_BuiltIns ==
    /\ [](role = "caller" =>
            /\ \A tag \in {CONNECTION_LOST, GIBBERISH} :
                    /\ tag \in DOMAIN signal_callbacks
                    /\ signal_callbacks[tag][1] = BuiltIn(tag)
            /\ \A notice \in {ConnectionLostNotice, GibberishNotice} :
                    Count(dispatched, notice) >= 1 =>
                        /\ Count(Scheduled, StopCallback(notice)) >= 1
                        /\ HasRun(StopCallback(notice)) => OwnerStopped)
    /\ [][\A tag \in DOMAIN signal_callbacks :
                /\ tag \in DOMAIN signal_callbacks'
                /\ IsPrefix(signal_callbacks[tag], signal_callbacks'[tag])]_vars

\* the application subscribed twice more to connection-lost; the child
\* closed the pipe, the built-in callback ran first and stopped the caller
C21_Witness ==
    /\ role = "caller"
    /\ signal_callbacks[CONNECTION_LOST] =
            <<BuiltIn(CONNECTION_LOST), <<"on_lost", << >> >>, <<"on_lost", << >> >> >>
    /\ dispatched = <<ConnectionLostNotice>>
    /\ Scheduled = << <<"connection_lost", TheCaller>>, <<"on_lost", TheCaller>>,
                      <<"on_lost", TheCaller>> >>
    /\ Len(ran) = 1
    /\ OwnerStopped

(***************************************************************************)
(* Claims about the caller and its child process (under SpecProcess)       *)
(***************************************************************************)
\* a step in which the caller's stop() runs: called by the application, or
\* by the built-in callback of a reserved notification
CallerStopStep ==
    /\ role = "caller"
    /\ \/ hist'.stops = hist.stops + 1
       \/ /\ idle # << >>
          /\ Head(idle).fn \in {"connection_lost", "gibberish"}
          /\ ran' = Append(ran, Head(idle))

\* C22: Caller.stop() is idempotent. However often stop() runs, called by
\* the application or by the connection-lost and gibberish callbacks, and
\* whenever the child exits, the child is sent the terminate signal at most
\* once, and only while it has not exited; close() is called on the engine
\* at most once; stop() leaves the caller without process and engine, does
\* nothing when it already has neither, and returns without the child
\* having exited.
C22_StopIdempotent ==
    /\ [](role = "caller" =>
            /\ hist.terminate <= 1
            /\ hist.close_calls <= 1
            /\ engine.conn_closed <= 1)
    /\ [][ /\ (hist'.terminate # hist.terminate) =>
                /\ CallerStopStep
                /\ child = "running" /\ child' = "terminated"
           /\ CallerStopStep =>
                /\ process' = NoProcess /\ protocol' = NoProtocol
                /\ child' \in {child, "terminated"}
                /\ (process = NoProcess /\ protocol = NoProtocol) =>
                        UNCHANGED <<child, engine, hist.terminate, hist.close_calls>> ]_vars

\* the application stopped a caller twice, then the gibberish callback
\* stopped it a third time: one terminate, one close()
C22_Witness ==
    /\ role = "caller"
    /\ hist.stops = 2
    /\ HasRun(<<"gibberish", TheCaller, "excerpt">>)
    /\ hist.terminate = 1
    /\ hist.close_calls = 1
    /\ child = "terminated"

\* C23: a send() called when the child has already exited fails with
\* ConnectionClosed, and does not leave its packet on the queue.
C23_SendFails ==
    \A i \in 1..Len(hist.send_log) :
        hist.send_log[i].gone =>
            /\ hist.send_log[i].did.raised
            /\ ~hist.send_log[i].did.queued

\* the exit subscribers, as scheduled
ExitCallbacks == Select(Scheduled, {"on_exit"})

\* C24: after start(), whenever the child exits -- of its own accord or of
\* the terminate signal of an earlier stop() -- the caller's exit
\* subscribers are eventually scheduled, with the caller as argument: they
\* are once the exit watcher has fired, which it does.
C24_ExitFired ==
    /\ (role = "caller" /\ child = "exited") ~> (ExitCallbacks # << >>)
    /\ [](role = "caller" =>
            /\ child = "reaped" => ExitCallbacks # << >>
            /\ \A i \in 1..Len(ExitCallbacks) :
                    ExitCallbacks[i] = <<"on_exit", TheCaller>>)

\* stop() was called first: the child was sent the terminate signal, exited,
\* and the exit subscriber was scheduled all the same
C24_Witness ==
    /\ role = "caller"
    /\ hist.stops >= 1
    /\ hist.terminate = 1
    /\ process = NoProcess
    /\ child = "reaped"
    /\ ExitCallbacks = << <<"on_exit", TheCaller>> >>

(***************************************************************************)
(* Claims about exported events (under SpecExport)                         *)
(***************************************************************************)
\* a step in which the wrapped object emits
EmitStep == Len(hist'.emit_log) = Len(hist.emit_log) + 1

\* the packet an emission should produce: the tag, the event's arguments,
\* the fixed arguments; not the emitter
ExportedPacket(em) == <<em.signal>> \o em.event_args \o em.user_data

\* C25 as stated: every emission of an exported event signals the write
\* path that more data is pending.
C25_EmitWakes == [][EmitStep => engine'.has_more]_vars

\* C25, amended: each emission of an exported event with arguments a1..an
\* enqueues exactly one packet (signal_tag, a1, .., an, *fixed_args), without
\* the emitting object, behind what was queued; it signals the write path
\* when the callee holds its engine and the engine is open, and only queues
\* the packet when the callee holds none (before start(), after stop()).
C25_Exported ==
    /\ [](role = "callee" =>
            /\ Len(enq_log) = Len(hist.emit_log)
            /\ \A i \in 1..Len(enq_log) :
                    enq_log[i] = ExportedPacket(hist.emit_log[i]))
    /\ [][EmitStep =>
            /\ send_queue' = Append(send_queue, enq_log'[Len(enq_log')])
            /\ (protocol = TheProtocol /\ engine.state \in EngineOpen)
                    => engine'.has_more
            /\ protocol = NoProtocol => engine' = engine ]_vars

\* the object emitted other(a1, a2), exported with the fixed argument b1,
\* while the engine was open, and the packet went out
C25_Witness ==
    /\ role = "callee"
    /\ hist.emit_log = <<[signal |-> "other", event_args |-> <<"a1", "a2">>,
                          user_data |-> <<"b1">>]>>
    /\ DecodeAll(wire_out) = << <<"other", "a1", "a2", "b1">> >>
    /\ engine.state \in EngineOpen

(***************************************************************************)
(* The echo scenario, end to end (under SpecEcho)                          *)
(***************************************************************************)
EchoCommand == <<"echo", "hi">>
RepliedCallback == <<"on_replied", TheCaller, "hi">>

\* how many times the caller's replied subscriber has run
Replies == Cardinality({i \in 1..Len(ran) : <<ran[i].fn>> \o ran[i].args = RepliedCallback})

\* C26: every ("echo", "hi") a caller sends over its open connection to a
\* callee wrapping the echo object, with allow-list {echo} and replied
\* exported, eventually has the caller's replied subscriber run with the
\* caller and "hi", once for each such command and never more often; the
\* callee invokes echo("hi") for it and nothing for the commands outside
\* the allow-list.
C26_Echo ==
    /\ <>[](Replies = Count(enq_log, EchoCommand))
    /\ [](LET replied == Select(Scheduled, {"on_replied"})
          IN  /\ Len(replied) <= Count(enq_log, EchoCommand)
              /\ \A i \in 1..Len(replied) : replied[i] = RepliedCallback
              /\ Len(replied) = Count(dispatched, <<"replied", "hi">>)
              /\ \A i \in 1..Len(far.ran) : far.ran[i] = MethodEntry("echo", <<"hi">>)
              /\ Len(far.ran) + Len(far.idle) = Count(far.dispatched, EchoCommand))

\* one echo command among two sent: the subscriber has run once
C26_Witness ==
    /\ enq_log = << <<"msg", "a1">>, EchoCommand >>
    /\ far.dispatched = enq_log
    /\ far.ran = <<MethodEntry("echo", <<"hi">>)>>
    /\ peer_sent = << <<"replied", "hi">> >>
    /\ Replies = 1
    /\ idle = << >>

(***************************************************************************)
(* Encoder setup                                                           *)
(***************************************************************************)
\* the packet encoders known, by performance
EncoderNames == <<"rencodeplus", "rencode", "bencode", "yaml", "json", "msgpack">>

Encoders == {EncoderNames[i] : i \in 1..MaxEncoders}

\* get_enabled_encoders(PERFORMANCE_ORDER): a list in preference order,
\* not empty (the assert of line 68)
EncoderLists ==
    {l \in UNION {[1..n -> Encoders] : n \in 1..MaxEncoders} :
        \A i, j \in 1..Len(l) : i # j => l[i] # l[j]}

\* [encoder, tried]: the outcome of the loop over the encoders left
RECURSIVE EnableFirst_no_break(_, _, _, _)
EnableFirst_no_break(encoders, enableable, current, tried) ==
    IF encoders = << >> THEN [encoder |-> current, tried |-> tried]
    ELSE EnableFirst_no_break(Tail(encoders), enableable,
            IF Head(encoders) \in enableable THEN Head(encoders) ELSE current,
            Append(tried, Head(encoders)))

\* for encoder in encoders: try: protocol.enable_encoder(encoder); break
\* except Exception: log
RECURSIVE EnableFirst(_, _, _, _)
EnableFirst(encoders, enableable, current, tried) ==
    IF encoders = << >> THEN [encoder |-> current, tried |-> tried]
    ELSE IF Head(encoders) \in enableable
    THEN [encoder |-> Head(encoders), tried |-> Append(tried, Head(encoders))]
    ELSE EnableFirst(Tail(encoders), enableable, current,
                     Append(tried, Head(encoders)))

\* setup_fastencoder_nocompression(protocol)
setup_fastencoder_nocompression(su) ==
    LET got == EnableFirst(su.encoders, su.enableable, su.encoder, << >>)
    IN  [su EXCEPT !.encoder = got.encoder, !.tried = got.tried,
                   !.compressor = "none", !.done = TRUE]

\* make_protocol calls it on the engine it has just made
SetupEncoders ==
    /\ ~setup.done
    /\ setup' = setup_fastencoder_nocompression(setup)
    /\ UNCHANGED <<fvars, bvars, faultvars, far, chunker, tk>>

NextSetup == SetupEncoders

InitSetup ==
    /\ BridgeInit(NoPlan, 0)
    /\ FrameIdle
    /\ FaultIdle
    /\ far = NewFar
    /\ chunker = NewChunker
    /\ tk = NewTk
    /\ role = "caller"
    /\ \E l \in EncoderLists, ok \in SUBSET Encoders :
            setup = [NoSetup EXCEPT !.encoders = l, !.enableable = ok]

SpecSetup == InitSetup /\ [][NextSetup]_vars

\* the positions of the list whose encoder can be enabled
Enableable == {i \in 1..Len(setup.encoders) : setup.encoders[i] \in setup.enableable}

\* C31: after the setup the engine has the first encoder of the list that
\* could be enabled, every encoder before it was tried and failed, none
\* after it was tried; when none can be enabled all were tried and the
\* engine keeps its baseline encoder; the compressor is "none" in every
\* case.
C31_FirstEncoder ==
    setup.done =>
        /\ setup.compressor = "none"
        /\ IF Enableable = {}
           THEN setup.encoder = "baseline" /\ setup.tried = setup.encoders
           ELSE LET first == CHOOSE i \in Enableable : \A j \in Enableable : i <= j
                IN  /\ setup.encoder = setup.encoders[first]
                    /\ setup.tried = SubSeq(setup.encoders, 1, first)

\* the first encoder fails, the second is enabled, the third would work
\* too and is never tried
C31_Witness ==
    /\ setup.done
    /\ Len(setup.encoders) = 3
    /\ Enableable = {2, 3}
    /\ setup.encoder = setup.encoders[2]
    /\ Len(setup.tried) = 2

(***************************************************************************)
(* Large packets                                                           *)
(***************************************************************************)
\* the configured threshold on a packet's serialized body, in bytes
ChunkThreshold == 3

PacketLarge == <<"msg", "a1", "a2", "b1", "a1", "a2", "b1">>
PacketOther == <<"other", "a1", "a2", "b1">>

\* what the owner sends: within the threshold, over it on the tag msg, over
\* it on the tag other
LargeSendPackets == {PacketA1, PacketLarge, PacketOther}

\* the allow-lists an owner sets in self.large_packets before start()
LargePacketLists == {{}, {"msg"}}

\* the packet's serialized body: the encoded packet without its header
SerializedBody(packet) ==
    Slice(encode_packet(packet), HEADER_SIZE, Len(encode_packet(packet)))

Oversized(packet) == Len(SerializedBody(packet)) > ChunkThreshold

\* a frame of the chunked transfer
ChunkFrame(kind, seq, index, count, bytes) ==
    [kind |-> kind, seq |-> seq, index |-> index, count |-> count, bytes |-> bytes]

\* the number of data chunks of a body
ChunkCount(body) == (Len(body) + ChunkThreshold - 1) \div ChunkThreshold

\* the i-th data chunk's bytes
ChunkPiece(body, i) ==
    Slice(body, (i - 1) * ChunkThreshold,
          IF i * ChunkThreshold < Len(body) THEN i * ChunkThreshold ELSE Len(body))

\* a header chunk announcing the chunk count and the sequence, then the
\* data chunks
SplitChunks(body, seq) ==
    <<ChunkFrame("hdr", seq, 0, ChunkCount(body), << >>)>>
        \o [i \in 1..ChunkCount(body) |->
                ChunkFrame("data", seq, i, 0, ChunkPiece(body, i))]

\* what the codec puts on the wire for a packet pulled from the send
\* queue: chunks, one frame, or nothing for an oversized packet on a tag
\* that is not registered
CodecFrames(packet, large_packets, seq) ==
    IF ~Oversized(packet)
    THEN <<ChunkFrame("whole", 0, 0, 0, SerializedBody(packet))>>
    ELSE IF packet[1] \in large_packets
    THEN SplitChunks(SerializedBody(packet), seq)
    ELSE << >>

\* the owner calls send() with a packet of any size
CallerSendLarge ==
    /\ role = "caller"
    /\ Len(chunker.asked) < MaxLargeSends
    /\ \E packet \in LargeSendPackets :
            /\ Caller_send(packet)
            /\ chunker' = [chunker EXCEPT !.asked = Append(@, packet)]
    /\ INJECT_FAULT(protocol, "send")
    /\ UNCHANGED <<fvars, far, latevars>>
    /\ UNCHANGED <<role, method_whitelist, wrapped_object, protocol, wire_out, pipe_in,
                   peer_eof, peer_sent, dispatched, idle, timers, ran, mainloop,
                   sig_handler, process, child, signal_callbacks, prod, peer_left>>

\* the write loop pulls the next packet and hands it to the codec
ChunkerGet ==
    /\ engine.state \in EngineOpen
    /\ engine.writer = "get"
    /\ LET got == get_packet_cb(send_queue)
           frames == CodecFrames(got.item, chunker.large_packets, chunker.next_seq)
       IN  /\ send_queue' = got.rest
           /\ IF got.item = NoPacket
              THEN /\ engine' = [engine EXCEPT !.writer = "wait"]
                   /\ UNCHANGED chunker
              ELSE /\ engine' = [engine EXCEPT
                                    !.writer = IF got.more THEN "get" ELSE "wait"]
                   /\ chunker' = [chunker EXCEPT
                        !.wire = @ \o frames,
                        !.written = @ \o frames,
                        !.errors = @ + (IF frames = << >> THEN 1 ELSE 0),
                        !.next_seq = @ + (IF Len(frames) > 1 THEN 1 ELSE 0),
                        !.sent = IF Len(frames) > 1
                                 THEN Append(@, [seq |-> chunker.next_seq,
                                                 packet |-> got.item])
                                 ELSE @]
    /\ UNCHANGED <<fvars, faultvars, far, latevars>>
    /\ UNCHANGED <<role, method_whitelist, wrapped_object, protocol, wire_out, pipe_in,
                   peer_eof, peer_sent, dispatched, idle, timers, ran, mainloop,
                   sig_handler, process, child, signal_callbacks, prod, peer_left,
                   enq_log, hist>>

\* the chunks buffered for a sequence, in the order of their index
RECURSIVE Reassemble(_, _)
Reassemble(parts, n) ==
    IF n = 0 THEN << >>
    ELSE Reassemble(parts, n - 1) \o (IF n \in DOMAIN parts THEN parts[n] ELSE << >>)

ChunkComplete_first(entry) == DOMAIN entry.parts # {}

\* all chunks announced by the header have arrived
ChunkComplete(entry) == DOMAIN entry.parts = 1..entry.count

\* the receiver takes one frame: a whole packet is dispatched, a header
\* opens the buffer of its sequence, a data chunk is buffered by its index
\* and the packet dispatched once the buffer is complete
ChunkReceive ==
    /\ chunker.wire # << >>
    /\ LET f == Head(chunker.wire)
           open == DOMAIN chunker.table
       IN  chunker' =
            IF f.kind = "whole"
            THEN [chunker EXCEPT !.wire = Tail(@),
                    !.delivered = Append(@, [seq |-> 0, payload |-> f.bytes])]
            ELSE IF f.kind = "hdr"
            THEN [chunker EXCEPT !.wire = Tail(@),
                    !.table = [q \in open \cup {f.seq} |->
                                IF q = f.seq THEN [count |-> f.count, parts |-> << >>]
                                ELSE @[q]]]
            ELSE IF f.seq \notin open
            THEN [chunker EXCEPT !.wire = Tail(@)]
            ELSE LET entry == [chunker.table[f.seq] EXCEPT
                                !.parts = [i \in DOMAIN @ \cup {f.index} |->
                                            IF i = f.index THEN f.bytes ELSE @[i]]]
                 IN  IF ChunkComplete(entry)
                     THEN [chunker EXCEPT !.wire = Tail(@),
                            !.table = [q \in open \ {f.seq} |-> @[q]],
                            !.delivered = Append(@,
                                [seq |-> f.seq,
                                 payload |-> Reassemble(entry.parts, entry.count)])]
                     ELSE [chunker EXCEPT !.wire = Tail(@),
                            !.table = [@ EXCEPT ![f.seq] = entry]]
    /\ UNCHANGED <<fvars, bvars, faultvars, far, latevars>>

NextChunk ==
    \/ Caller_start
    \/ CallerSendLarge
    \/ WriterWake \/ ChunkerGet
    \/ ChunkReceive
    \/ CallerStop

InitChunk ==
    /\ BridgeInit(NoPlan, 0)
    /\ FrameIdle
    /\ FaultIdle
    /\ far = NewFar
    /\ LateIdle
    /\ role = "caller"
    /\ \E lp \in LargePacketLists : chunker = [NewChunker EXCEPT !.large_packets = lp]

SpecChunk == InitChunk /\ [][NextChunk]_vars

\* the deliveries the receiver made for a sequence
DeliveriesOf(seq) ==
    {i \in 1..Len(chunker.delivered) : chunker.delivered[i].seq = seq}

\* no frame of the sequence is still on its way
AllArrived(seq) ==
    \A i \in 1..Len(chunker.wire) : chunker.wire[i].seq # seq

\* C29: a packet over the threshold whose tag is in the large-packet
\* allow-list goes out as chunks; the receiver has dispatched it once when
\* all its chunks have arrived and not at all before, and what it
\* dispatches is the serialized body that was sent, byte for byte.
C29_Chunked ==
    \A k \in 1..Len(chunker.sent) :
        LET e == chunker.sent[k]
        IN  /\ Oversized(e.packet)
            /\ e.packet[1] \in chunker.large_packets
            /\ Cardinality(DeliveriesOf(e.seq)) = IF AllArrived(e.seq) THEN 1 ELSE 0
            /\ \A i \in DeliveriesOf(e.seq) :
                    chunker.delivered[i].payload = SerializedBody(e.packet)

\* the seven byte body went out as a header and three chunks and has been
\* dispatched, while the next chunked packet is still arriving
C29_Witness ==
    /\ chunker.large_packets = {"msg"}
    /\ chunker.asked = <<PacketLarge, PacketLarge>>
    /\ Len(chunker.written) = 8
    /\ chunker.delivered = <<[seq |-> 1, payload |-> SerializedBody(PacketLarge)]>>
    /\ 2 \in DOMAIN chunker.table
    /\ DOMAIN chunker.table[2].parts = {1, 2}

\* the owner's send() of this packet
SendOf(packet) == chunker'.asked = Append(chunker.asked, packet)

\* C30 as stated: send() of a packet over the threshold on a tag that is
\* not registered for chunking raises at once and queues nothing, and no
\* byte of such a packet is ever written.
C30_RejectedAtEnqueue ==
    /\ [][\A packet \in LargeSendPackets :
            (SendOf(packet) /\ Oversized(packet)
                /\ packet[1] \notin chunker.large_packets)
            => /\ send_queue' = send_queue
               /\ hist'.send_log # hist.send_log
               /\ hist'.send_log[Len(hist'.send_log)].did.raised]_vars
    /\ [](\A i \in 1..Len(chunker.written) :
            /\ Len(chunker.written[i].bytes) <= ChunkThreshold
            /\ chunker.written[i].kind # "whole" =>
                    \E k \in 1..Len(chunker.sent) :
                        /\ chunker.sent[k].seq = chunker.written[i].seq
                        /\ chunker.sent[k].packet[1] \in chunker.large_packets)

(***************************************************************************)
(* Fault injection                                                         *)
(***************************************************************************)
\* the hook's calls made from send()
SendInjections == SelectSeq(fault_log, LAMBDA e : e.at = "send")

\* the hook's calls made from process_packet
ProcessInjections == SelectSeq(fault_log, LAMBDA e : e.at = "process")

\* the bytes written, read as packets of the given list with the junk of
\* raw_write between them: whether they are that, and how often the junk
\* occurs
RECURSIVE Unjunk(_, _)
Unjunk(wire, packets) ==
    IF wire = << >> THEN [ok |-> TRUE, junk |-> 0]
    ELSE IF IsPrefix(FaultJunk, wire)
    THEN LET r == Unjunk(SubSeq(wire, Len(FaultJunk) + 1, Len(wire)), packets)
         IN  [ok |-> r.ok, junk |-> r.junk + 1]
    ELSE IF packets = << >> THEN [ok |-> FALSE, junk |-> 0]
    ELSE LET e == encode_packet(Head(packets))
         IN  IF IsPrefix(e, wire)
             THEN Unjunk(SubSeq(wire, Len(e) + 1, Len(wire)), Tail(packets))
             ELSE [ok |-> IsPrefix(wire, e), junk |-> 0]

\* how many of the hook's calls called raw_write
RawWriteCalls == Cardinality({i \in 1..Len(fault_log) : fault_log[i].wrote})

\* C27 as stated: with a rate N > 0 the k-th send() is the one corrupted
\* exactly when k is a multiple of N, counting sends only.
C27_EveryNthSend ==
    fault_rate > 0 =>
        \A k \in 1..Len(SendInjections) :
            SendInjections[k].due <=> (k % fault_rate = 0)

\* C27: with a rate N > 0 every call of the hook is counted, those made by
\* send() and those made by process_packet together, and the k-th call is
\* the one that injects exactly when k is a multiple of N; an injecting call
\* calls raw_write on the engine it was given once, and fails without
\* writing when send() has no engine; the junk reaches the transport as it
\* is, between the packets of the send queue, never through the codec, and
\* no more often than raw_write was called.
C27_EveryNthCall ==
    fault_rate > 0 =>
        /\ counter = Len(fault_log)
        /\ \A k \in 1..Len(fault_log) :
                /\ fault_log[k].due <=> (k % fault_rate = 0)
                /\ fault_log[k].wrote <=> (fault_log[k].due /\ ~fault_log[k].raised)
                /\ fault_log[k].raised => fault_log[k].at = "send"
        /\ Len(SendInjections) = Len(enq_log)
        /\ Len(ProcessInjections) >=
                Cardinality({i \in 1..Len(dispatched) : HookReached(dispatched[i])})
        /\ role = "callee" =>
                Len(ProcessInjections) =
                    Cardinality({i \in 1..Len(dispatched) : HookReached(dispatched[i])})
        /\ Unjunk(wire_out, enq_log).ok
        /\ Unjunk(wire_out, enq_log).junk + raw_writes = RawWriteCalls
        /\ \A i \in 1..Len(enq_log) : enq_log[i][1] # "junk"

\* rate 2: a packet was processed, then the first send injected, and the
\* junk is on the wire before the packet sent
C27_Witness ==
    /\ fault_rate = 2
    /\ Len(fault_log) = 2
    /\ fault_log[1].at = "process"
    /\ fault_log[2] = Injected("send", TRUE, TRUE, FALSE)
    /\ Unjunk(wire_out, enq_log).junk = 1
    /\ Len(wire_out) > Len(FaultJunk)

\* C28: with the rate 0 the hook does nothing: no call is counted, raw_write
\* is never called, and the transport carries the packets of the send queue
\* and nothing else, whatever is sent and processed.
C28_RateZeroNoop ==
    fault_rate = 0 =>
        /\ counter = 0
        /\ raw_writes = 0
        /\ fault_log = << >>
        /\ IsPrefix(wire_out, FlatEncode(enq_log))

\* rate 0: a packet was sent and written, another was processed
C28_Witness ==
    /\ fault_rate = 0
    /\ enq_log # << >>
    /\ wire_out = FlatEncode(enq_log)
    /\ dispatched # << >>
    /\ counter = 0

(***************************************************************************)
(* Wake-ups                                                                *)
(***************************************************************************)
\* the write loop waits and nothing is about to wake it
WriterIdle ==
    /\ engine.writer = "wait"
    /\ ~engine.has_more
    /\ \A p \in Producers : prod[p].pc # "wake"

\* C32: once a send() has called source_has_more() on the started engine,
\* the write loop never waits with a packet in the queue unless a wake-up
\* is pending or a producer is about to give one, and with every thread
\* scheduled fairly all that was enqueued is eventually on the wire, in
\* the order it was enqueued, for as long as the engine stays open.
C32_NoLostWakeup ==
    /\ []((engine.state \in EngineOpen /\ hist.woken /\ WriterIdle)
            => send_queue = << >>)
    /\ <>[]((engine.state \in EngineOpen /\ hist.woken)
            => wire_out = FlatEncode(enq_log))

\* both producers have sent everything, a packet was queued while the
\* write loop was busy with another, and all three are written
C32_Witness ==
    /\ engine.state \in EngineOpen
    /\ hist.woken
    /\ WriterIdle
    /\ Len(enq_log) = 3
    /\ wire_out = FlatEncode(enq_log)

(***************************************************************************)
(* get_packet                                                              *)
(***************************************************************************)
\* the write loop calls get_packet and takes what it returns
GetStep ==
    /\ engine.state \in EngineOpen
    /\ engine.writer = "get"
    /\ engine'.writer \in {"wait", "write"}

\* C34: get_packet of either role always returns: on an empty queue
\* (none, false, false) and the queue as it was; otherwise the oldest
\* packet, must_start_new_frame false, more_pending true exactly when a
\* packet is left, and the queue without that packet. The write loop gets
\* every enqueued packet at most once: what it has taken and what is still
\* queued are the packets enqueued, each once, in order.
C34_GetPacket ==
    /\ [](LET got == get_packet_cb(send_queue)
          IN  /\ ~got.start_new_frame
              /\ send_queue = << >> =>
                    got.item = NoPacket /\ ~got.more /\ got.rest = send_queue
              /\ send_queue # << >> =>
                    /\ got.item = Head(send_queue)
                    /\ got.rest = Tail(send_queue)
                    /\ got.more <=> (Tail(send_queue) # << >>))
    /\ [][GetStep =>
            IF send_queue = << >>
            THEN send_queue' = << >> /\ engine'.writer = "wait"
                    /\ engine'.wbuf = << >>
            ELSE /\ send_queue' = Tail(send_queue)
                 /\ engine'.writer = "write"
                 /\ engine'.wbuf = encode_packet(Head(send_queue))
                 /\ engine'.wmore <=> (send_queue' # << >>)]_vars
    /\ [](LET taken == Len(enq_log) - Len(send_queue)
          IN  /\ taken >= 0
              /\ send_queue = SubSeq(enq_log, taken + 1, Len(enq_log))
              /\ engine.state \in EngineOpen =>
                    wire_out \o engine.wbuf = FlatEncode(SubSeq(enq_log, 1, taken)))

\* the callee's write loop has taken the first of three queued packets and
\* was told that more are pending
C34_Witness ==
    /\ role = "callee"
    /\ Len(enq_log) = 3
    /\ Len(send_queue) = 2
    /\ engine.writer = "write"
    /\ engine.wmore
    /\ engine.wbuf = encode_packet(enq_log[1])

(***************************************************************************)
(* The callee's stop                                                       *)
(***************************************************************************)
StopTags == {"stop", CONNECTION_LOST, GIBBERISH}

\* the callee was handed a stop, connection-lost or gibberish packet, or
\* received a termination signal
StopAsked ==
    \/ \E i \in 1..Len(dispatched) : dispatched[i][1] \in StopTags
    \/ hist.signals > 0

\* stop() has run: no engine held, the engine closed, the loop told to quit
Stopped ==
    /\ hist.stop_runs >= 1
    /\ protocol = NoProtocol
    /\ engine.state \in EngineClosing
    /\ mainloop = "quit"

\* C35: once a started callee has been handed a stop, connection-lost or
\* gibberish packet or has received a termination signal, then, the main
\* loop running what is scheduled, stop() eventually runs and leaves the
\* engine closed and the loop halted; the read path only schedules stop()
\* on the main loop and never runs it.
C35_StopRuns ==
    /\ <>[](StopAsked => Stopped)
    /\ [][dispatched' # dispatched =>
            /\ hist'.stop_runs = hist.stop_runs
            /\ mainloop' = mainloop
            /\ protocol' = protocol
            /\ dispatched'[Len(dispatched')][1] \in StopTags =>
                    idle' = Append(idle, IdleEntry("stop", << >>))]_vars
    /\ [](hist.stop_runs >= 1 => StopAsked)

\* a stop packet was read, stop() was scheduled and has run from the main
\* loop
C35_Witness ==
    /\ dispatched = << <<"stop">> >>
    /\ ran = <<IdleEntry("stop", << >>)>>
    /\ hist.signals = 0
    /\ Stopped

\* C36: whatever the order of signals, the deferred stop timer, stop,
\* connection-lost and gibberish packets and the end of the main loop, the
\* callee calls close() on its engine at most once, and holds no protocol
\* reference once stop() or the final clause of start() has run.
C36_CloseOnce ==
    /\ hist.close_calls <= 1
    /\ engine.conn_closed <= 1
    /\ (hist.stop_runs >= 1 \/ mainloop = "ended") => protocol = NoProtocol
    /\ mainloop = "ended" => engine.state \in EngineClosing

\* after the first signal a second one stopped the callee with the stop
\* timer still set, a stop packet had scheduled stop() as well, and the
\* main loop has ended: close() was called once
C36_Witness ==
    /\ hist.signals = 2
    /\ "stop" \in timers
    /\ idle = <<IdleEntry("stop", << >>)>>
    /\ hist.stop_runs = 1
    /\ mainloop = "ended"
    /\ hist.close_calls = 1
    /\ protocol = NoProtocol

(***************************************************************************)
(* Claims about the two sources of the exit callback (under SpecShare)     *)
(***************************************************************************)
\* the caller, its child, the exit watcher and the connection's close
\* callback
NextShare ==
    \/ NextExit
    \/ ConnectionClosed

SpecShare == InitProcess /\ [][NextShare]_vars

\* how many times subprocess_exit was called: by the connection's close
\* callback, and by the exit watcher
ExitCalls == hist.close_cb + (IF child = "reaped" THEN 1 ELSE 0)

\* C37, as stated: the exit subscribers are fired at most once per started
\* child; the connection's close callback and the exit watcher never both
\* fire them.
C37_ExitOnce ==
    role = "caller" => Len(ExitCallbacks) <= 1

\* C37, amended: the exit subscribers are fired once by each of the two
\* that call the shared handler -- the connection's close callback and the
\* exit watcher -- that has run, so at most twice per started child, and
\* both do fire them for the same child.
C37_ExitPerSource ==
    role = "caller" =>
        /\ Len(ExitCallbacks) = ExitCalls
        /\ Len(ExitCallbacks) <= 2
        /\ \A i \in 1..Len(ExitCallbacks) :
                ExitCallbacks[i] = <<"on_exit", TheCaller>>

\* stop() closed the connection, whose close callback fired the exit
\* subscriber; the child then exited of the terminate signal and the exit
\* watcher fired it again
C37_Witness ==
    /\ role = "caller"
    /\ hist.stops >= 1
    /\ hist.terminate = 1
    /\ hist.close_cb = 1
    /\ child = "reaped"
    /\ Len(ExitCallbacks) = 2

(***************************************************************************)
(* Claims about what is sent before start() (under SpecWake)               *)
(***************************************************************************)
\* no producer has anything left to send
SendsDone == \A p \in Producers : prod[p].todo = << >>

\* C38: a packet passed to send() before start() is written once the
\* engine has been started and stays open, first among the queued packets,
\* without a further send(): when the engine is open, the write loop waits
\* with no wake-up pending and no send() is left to come, nothing is left
\* in the queue and all that was enqueued is on the wire, in order.
C38_EarlySendWritten ==
    (/\ engine.state \in EngineOpen
     /\ hist.early > 0
     /\ WriterIdle
     /\ SendsDone)
        => /\ send_queue = << >>
           /\ wire_out = FlatEncode(enq_log)

(***************************************************************************)
(* Claims about fault injection without an engine (under SpecFault)        *)
(***************************************************************************)
\* C39: with fault injection at a rate N > 0, send() on a role that holds
\* no protocol engine returns normally on every call, the Nth included:
\* each such call has queued its packet and none has raised.
C39_SendReturns ==
    fault_rate > 0 =>
        /\ Len(enq_log) = Len(SendInjections)
        /\ \A i \in 1..Len(SendInjections) : ~SendInjections[i].raised

(***************************************************************************)
(* xpra/client/tk/client.py: send(), next_packet() and the write loop      *)
(***************************************************************************)
\* make_protocol: the engine is built with next_packet as its packet
\* source, self.have_more = protocol.source_has_more; its write loop waits
Tk_make_protocol(t) == [t EXCEPT !.writer = "wait"]

\* send, first half: packet = (packet_type, *args);
\* self._ordinary_packets.append(packet)
Tk_send_append(t, packet) ==
    [t EXCEPT !.packets = Append(@, packet), !.sends = @ + 1, !.pc = "wake"]

\* send, second half: self.have_more(), the engine's source_has_more
Tk_send_have_more(t) == [t EXCEPT !.has_more = TRUE, !.pc = "idle"]

\* what next_packet() gives: the tuple it returns, or the IndexError of
\* pop(0) on an empty list
TkNext(raised, packet, new_frame, more, rest) ==
    [raised |-> raised, packet |-> packet, new_frame |-> new_frame,
     more |-> more, rest |-> rest]

\* next_packet: packet = self._ordinary_packets.pop(0);
\* return packet, True, bool(self._ordinary_packets)
Tk_next_packet(packets) ==
    IF packets = << >> THEN TkNext(TRUE, NoPacket, FALSE, FALSE, packets)
    ELSE TkNext(FALSE, Head(packets), TRUE, Tail(packets) # << >>, Tail(packets))

\* the n-th packet the client sends
TkPacket(n) == <<"tk", n>>

TkMakeProtocol ==
    /\ tk.writer = "off"
    /\ tk' = Tk_make_protocol(tk)
    /\ UNCHANGED <<fvars, bvars, faultvars, far, chunker, setup>>

\* the main thread is in send(); the first one is send_hello, which
\* make_protocol schedules
TkSendAppend ==
    /\ tk.writer # "off"
    /\ tk.pc = "idle"
    /\ tk.sends < MaxTkSends
    /\ tk' = Tk_send_append(tk, TkPacket(tk.sends + 1))
    /\ UNCHANGED <<fvars, bvars, faultvars, far, chunker, setup>>

TkSendWake ==
    /\ tk.pc = "wake"
    /\ tk' = Tk_send_have_more(tk)
    /\ UNCHANGED <<fvars, bvars, faultvars, far, chunker, setup>>

\* the write loop, suspended on the wake signal, is woken
TkWriterWake ==
    /\ tk.writer = "wait"
    /\ tk.has_more
    /\ tk' = [tk EXCEPT !.has_more = FALSE, !.writer = "get"]
    /\ UNCHANGED <<fvars, bvars, faultvars, far, chunker, setup>>

\* it calls next_packet()
TkWriterGet ==
    /\ tk.writer = "get"
    /\ LET got == Tk_next_packet(tk.packets)
       IN  tk' = IF got.raised
                 THEN [tk EXCEPT !.failures = @ + 1, !.writer = "failed"]
                 ELSE [tk EXCEPT !.packets = got.rest, !.writer = "write",
                                 !.wbuf = <<got.packet>>, !.wmore = got.more]
    /\ UNCHANGED <<fvars, bvars, faultvars, far, chunker, setup>>

\* it writes the packet, then drains on when more_pending was set and
\* suspends otherwise
TkWriterWrite ==
    /\ tk.writer = "write"
    /\ tk' = [tk EXCEPT !.written = @ \o tk.wbuf, !.wbuf = << >>,
                        !.writer = IF tk.wmore THEN "get" ELSE "wait"]
    /\ UNCHANGED <<fvars, bvars, faultvars, far, chunker, setup>>

NextTk ==
    \/ TkMakeProtocol
    \/ TkSendAppend \/ TkSendWake
    \/ TkWriterWake \/ TkWriterGet \/ TkWriterWrite

InitTk == BridgeInit(NoPlan, 0) /\ FrameIdle /\ XIdle /\ role = "caller"

SpecTk == InitTk /\ [][NextTk]_vars

\* C40: in the Tk client, over every interleaving of send() -- append,
\* then wake the writer -- with the engine's write loop, next_packet() is
\* never called on an empty packet list, so that it never fails.
C40_NeverEmpty ==
    tk.failures = 0

====
